---- MODULE Spec2Model ----
(***************************************************************************)
(* Ship routing on a longitude/latitude raster: the query side of the      *)
(* route library (src/route/src/lib.rs) and the shortcut overlay builder   *)
(* (src/create_shortcuts/src/main.rs).                                     *)
(*                                                                         *)
(* Conventions of the model                                                *)
(*  - Vec<T> is a function over 0..len-1, so indices read as in the code.  *)
(*  - Option<T> is a tuple: None is << >> and Some(x) is <<x>>.            *)
(*  - Angles are integers in tenths of a degree (the code works in f64     *)
(*    degrees and in 1e-7 degree integer steps); every angle of the model  *)
(*    lies on a lattice of 45 x 22.5 degrees, that is half a raster step.  *)
(*  - Distances are integer metres exactly as the code truncates them.     *)
(***************************************************************************)
EXTENDS Integers, Sequences, FiniteSets, TLC

VARIABLES
  water,            \* land/water flag per raster node, input of the grid builder
  graph,            \* base Graph (offsets, edges, raster size)
  shortcut_graph,   \* overlay Graph written by create_graph
  chosen_nodes,     \* the (start, end) pair the caller queries
  chosen_points,    \* the user points (lon1, lat1, lon2, lat2) of the route queries
  state,            \* the AlgorithmState shared by all searches
  call,             \* locals of the search in progress (arguments, loop position)
  result,           \* PathResult of the search that returned last
  fp,               \* find_path: arguments and return value of the last call
  build,            \* create_graph: rectangles, the edges under the lock, position
  extract,          \* Coasts::new_from_pbffile: input position, maps, rings, position
  draft,            \* graph.rs: the Graph and the latest get_neighbours_in_water call
  classifier,       \* Node::set_water_flag: the coasts, the node and its flag
  picker            \* the rectangle picker: raster, placed rectangles, last request

vars == <<water, graph, shortcut_graph, chosen_nodes, chosen_points, state, call, result, fp,
          build, extract,
                 draft, classifier, picker>>

----------------------------------------------------------------------------
(* Bounds of the model *)

\* land cells per raster
MaxLand == 4

----------------------------------------------------------------------------
(* Raster and spherical geometry *)

RasterColumns == 4
RasterRows == 4
NodeCount == RasterColumns * RasterRows
Nodes == 0..(NodeCount - 1)

\* std::u32::MAX, the "unreached" sentinel.  TLC integers are 32 bit signed,
\* so the sentinel is the largest of them; every distance sum of the model
\* stays far below it, as it does below 2^32 - 1 in the program.
U32_MAX == 2147483647

None == << >>
Some(x) == <<x>>
IsSome(o) == o # << >>
Unwrap(o) == o[1]

Abs(x) == IF x < 0 THEN -x ELSE x

\* The bounds of i32, the starting values of a way's longitude extent.
I32_MAX == 2147483647
I32_MIN == -2147483647 - 1

\* The values of draft, classifier and picker while they are not in use.
NoDraft == [pc |-> "idle"]
NoClassifier == [pc |-> "idle"]
NoPicker == [pc |-> "idle"]

\* The locals of Coasts::new_from_pbffile before any file is read.
NoExtract ==
  [pc |-> "idle", pbf |-> << >>, read |-> 0, nodes |-> << >>, coasts |-> << >>,
   current_coast |-> None, actual_coasts |-> << >>, counter |-> 0]

\* Great-circle distance in metres, truncated to u32, between lattice points:
\* DistanceTable[j1 + 1][j2 + 1][d + 1] is
\*   (6371000.0 * acos(cos(lat1) cos(lat2) cos(lon1 - lon2) + sin(lat1) sin(lat2))) as u32
\* for lat1 = 90 - 22.5 j1, lat2 = 90 - 22.5 j2 and |lon1 - lon2| = 45 d degrees,
\* evaluated in f64 as calculate_distance does (NaN from acos casts to 0).
DistanceTable == <<
  <<<<0, 0, 0, 0, 0, 0, 0, 0, 0>>,
    <<2501885, 2501885, 2501885, 2501885, 2501885, 2501885, 2501885, 2501885, 2501885>>,
    <<5003771, 5003771, 5003771, 5003771, 5003771, 5003771, 5003771, 5003771, 5003771>>,
    <<7505657, 7505657, 7505657, 7505657, 7505657, 7505657, 7505657, 7505657, 7505657>>,
    <<10007543, 10007543, 10007543, 10007543, 10007543, 10007543, 10007543, 10007543, 10007543>>,
    <<12509429, 12509429, 12509429, 12509429, 12509429, 12509429, 12509429, 12509429, 12509429>>,
    <<15011315, 15011315, 15011315, 15011315, 15011315, 15011315, 15011315, 15011315, 15011315>>,
    <<17513200, 17513200, 17513200, 17513200, 17513200, 17513200, 17513200, 17513200, 17513200>>,
    <<20015086, 20015086, 20015086, 20015086, 20015086, 20015086, 20015086, 20015086, 20015086>>>>,
  <<<<2501885, 2501885, 2501885, 2501885, 2501885, 2501885, 2501885, 2501885, 2501885>>,
    <<0, 1872757, 3491488, 4604539, 5003771, 4604539, 3491488, 1872757, 0>>,
    <<2501885, 3599203, 5471961, 6948309, 7505657, 6948309, 5471961, 3599203, 2501885>>,
    <<5003771, 5879452, 7705273, 9346619, 10007543, 9346619, 7705273, 5879452, 5003771>>,
    <<7505657, 8261798, 10007543, 11753287, 12509429, 11753287, 10007543, 8261798, 7505657>>,
    <<10007543, 10668466, 12309813, 14135634, 15011315, 14135634, 12309813, 10668466, 10007543>>,
    <<12509429, 13066776, 14543125, 16415883, 17513200, 16415883, 14543125, 13066776, 12509429>>,
    <<15011315, 15410546, 16523597, 18142328, 20015086, 18142328, 16523597, 15410546, 15011315>>,
    <<17513200, 17513200, 17513200, 17513200, 17513200, 17513200, 17513200, 17513200, 17513200>>>>,
  <<<<5003771, 5003771, 5003771, 5003771, 5003771, 5003771, 5003771, 5003771, 5003771>>,
    <<2501885, 3599203, 5471961, 6948309, 7505657, 6948309, 5471961, 3599203, 2501885>>,
    <<0, 3491488, 6671695, 9071164, 10007543, 9071164, 6671695, 3491488, 0>>,
    <<2501885, 4770309, 8261798, 11234145, 12509429, 11234145, 8261798, 4770309, 2501885>>,
    <<5003771, 6671695, 10007543, 13343391, 15011315, 13343391, 10007543, 6671695, 5003771>>,
    <<7505657, 8780941, 11753287, 15244776, 17513200, 15244776, 11753287, 8780941, 7505657>>,
    <<10007543, 10943922, 13343391, 16523597, 20015086, 16523597, 13343391, 10943922, 10007543>>,
    <<12509429, 13066776, 14543125, 16415883, 17513200, 16415883, 14543125, 13066776, 12509429>>,
    <<15011315, 15011315, 15011315, 15011315, 15011315, 15011315, 15011315, 15011315, 15011315>>>>,
  <<<<7505657, 7505657, 7505657, 7505657, 7505657, 7505657, 7505657, 7505657, 7505657>>,
    <<5003771, 5879452, 7705273, 9346619, 10007543, 9346619, 7705273, 5879452, 5003771>>,
    <<2501885, 4770309, 8261798, 11234145, 12509429, 11234145, 8261798, 4770309, 2501885>>,
    <<0, 4604539, 9071164, 13032108, 15011315, 13032108, 9071164, 4604539, 0>>,
    <<2501885, 5471961, 10007543, 14543125, 17513200, 14543125, 10007543, 5471961, 2501885>>,
    <<5003771, 6982977, 10943922, 15410546, 20015086, 15410546, 10943922, 6982977, 5003771>>,
    <<7505657, 8780941, 11753287, 15244776, 17513200, 15244776, 11753287, 8780941, 7505657>>,
    <<10007543, 10668466, 12309813, 14135634, 15011315, 14135634, 12309813, 10668466, 10007543>>,
    <<12509429, 12509429, 12509429, 12509429, 12509429, 12509429, 12509429, 12509429, 12509429>>>>,
  <<<<10007543, 10007543, 10007543, 10007543, 10007543, 10007543, 10007543, 10007543, 10007543>>,
    <<7505657, 8261798, 10007543, 11753287, 12509429, 11753287, 10007543, 8261798, 7505657>>,
    <<5003771, 6671695, 10007543, 13343391, 15011315, 13343391, 10007543, 6671695, 5003771>>,
    <<2501885, 5471961, 10007543, 14543125, 17513200, 14543125, 10007543, 5471961, 2501885>>,
    <<0, 5003771, 10007543, 15011315, 20015086, 15011315, 10007543, 5003771, 0>>,
    <<2501885, 5471961, 10007543, 14543125, 17513200, 14543125, 10007543, 5471961, 2501885>>,
    <<5003771, 6671695, 10007543, 13343391, 15011315, 13343391, 10007543, 6671695, 5003771>>,
    <<7505657, 8261798, 10007543, 11753287, 12509429, 11753287, 10007543, 8261798, 7505657>>,
    <<10007543, 10007543, 10007543, 10007543, 10007543, 10007543, 10007543, 10007543, 10007543>>>>,
  <<<<12509429, 12509429, 12509429, 12509429, 12509429, 12509429, 12509429, 12509429, 12509429>>,
    <<10007543, 10668466, 12309813, 14135634, 15011315, 14135634, 12309813, 10668466, 10007543>>,
    <<7505657, 8780941, 11753287, 15244776, 17513200, 15244776, 11753287, 8780941, 7505657>>,
    <<5003771, 6982977, 10943922, 15410546, 20015086, 15410546, 10943922, 6982977, 5003771>>,
    <<2501885, 5471961, 10007543, 14543125, 17513200, 14543125, 10007543, 5471961, 2501885>>,
    <<0, 4604539, 9071164, 13032108, 15011315, 13032108, 9071164, 4604539, 0>>,
    <<2501885, 4770309, 8261798, 11234145, 12509429, 11234145, 8261798, 4770309, 2501885>>,
    <<5003771, 5879452, 7705273, 9346619, 10007543, 9346619, 7705273, 5879452, 5003771>>,
    <<7505657, 7505657, 7505657, 7505657, 7505657, 7505657, 7505657, 7505657, 7505657>>>>,
  <<<<15011315, 15011315, 15011315, 15011315, 15011315, 15011315, 15011315, 15011315, 15011315>>,
    <<12509429, 13066776, 14543125, 16415883, 17513200, 16415883, 14543125, 13066776, 12509429>>,
    <<10007543, 10943922, 13343391, 16523597, 20015086, 16523597, 13343391, 10943922, 10007543>>,
    <<7505657, 8780941, 11753287, 15244776, 17513200, 15244776, 11753287, 8780941, 7505657>>,
    <<5003771, 6671695, 10007543, 13343391, 15011315, 13343391, 10007543, 6671695, 5003771>>,
    <<2501885, 4770309, 8261798, 11234145, 12509429, 11234145, 8261798, 4770309, 2501885>>,
    <<0, 3491488, 6671695, 9071164, 10007543, 9071164, 6671695, 3491488, 0>>,
    <<2501885, 3599203, 5471961, 6948309, 7505657, 6948309, 5471961, 3599203, 2501885>>,
    <<5003771, 5003771, 5003771, 5003771, 5003771, 5003771, 5003771, 5003771, 5003771>>>>,
  <<<<17513200, 17513200, 17513200, 17513200, 17513200, 17513200, 17513200, 17513200, 17513200>>,
    <<15011315, 15410546, 16523597, 18142328, 20015086, 18142328, 16523597, 15410546, 15011315>>,
    <<12509429, 13066776, 14543125, 16415883, 17513200, 16415883, 14543125, 13066776, 12509429>>,
    <<10007543, 10668466, 12309813, 14135634, 15011315, 14135634, 12309813, 10668466, 10007543>>,
    <<7505657, 8261798, 10007543, 11753287, 12509429, 11753287, 10007543, 8261798, 7505657>>,
    <<5003771, 5879452, 7705273, 9346619, 10007543, 9346619, 7705273, 5879452, 5003771>>,
    <<2501885, 3599203, 5471961, 6948309, 7505657, 6948309, 5471961, 3599203, 2501885>>,
    <<0, 1872757, 3491488, 4604539, 5003771, 4604539, 3491488, 1872757, 0>>,
    <<2501885, 2501885, 2501885, 2501885, 2501885, 2501885, 2501885, 2501885, 2501885>>>>,
  <<<<20015086, 20015086, 20015086, 20015086, 20015086, 20015086, 20015086, 20015086, 20015086>>,
    <<17513200, 17513200, 17513200, 17513200, 17513200, 17513200, 17513200, 17513200, 17513200>>,
    <<15011315, 15011315, 15011315, 15011315, 15011315, 15011315, 15011315, 15011315, 15011315>>,
    <<12509429, 12509429, 12509429, 12509429, 12509429, 12509429, 12509429, 12509429, 12509429>>,
    <<10007543, 10007543, 10007543, 10007543, 10007543, 10007543, 10007543, 10007543, 10007543>>,
    <<7505657, 7505657, 7505657, 7505657, 7505657, 7505657, 7505657, 7505657, 7505657>>,
    <<5003771, 5003771, 5003771, 5003771, 5003771, 5003771, 5003771, 5003771, 5003771>>,
    <<2501885, 2501885, 2501885, 2501885, 2501885, 2501885, 2501885, 2501885, 2501885>>,
    <<0, 0, 0, 0, 0, 0, 0, 0, 0>>>>
>>

calculate_distance(lon1, lat1, lon2, lat2) ==
  LET j1 == (900 - lat1) \div 225
      j2 == (900 - lat2) \div 225
      d  == Abs(lon1 - lon2) \div 450
  IN  DistanceTable[j1 + 1][j2 + 1][d + 1]

get_lon(g, i) ==
  LET step_size == 3600 \div g.raster_columns_count
      coordinate == (i % g.raster_columns_count) * step_size
  IN  coordinate - 1800

get_lat(g, i) ==
  LET step_size == 1800 \div g.raster_rows_count
      coordinate == (i \div g.raster_columns_count) * step_size
  IN  900 - coordinate

node_distance(g, i, j) ==
  calculate_distance(get_lon(g, i), get_lat(g, i), get_lon(g, j), get_lat(g, j))

----------------------------------------------------------------------------
(* Graph in compressed adjacency form (struct Graph, struct Edge) *)

Edge(destination, distance) == [destination |-> destination, distance |-> distance]

RECURSIVE edge_count_before(_, _)
edge_count_before(lists, i) ==
  IF i = 0 THEN 0 ELSE edge_count_before(lists, i - 1) + Len(lists[i - 1])

RECURSIVE flatten_edges(_, _)
flatten_edges(lists, i) ==
  IF i \notin DOMAIN lists THEN << >> ELSE lists[i] \o flatten_edges(lists, i + 1)

\* Lays per-node edge lists out as offsets + edges; offsets[i] is the pair
\* (offset, rectangle the node is inside of), with the sentinel offsets[N].
new_graph(raster, lists, membership, rects) ==
  LET flat == flatten_edges(lists, 0)
      node_count == raster.raster_rows_count * raster.raster_columns_count
  IN  [offsets |-> [i \in 0..node_count |->
                      <<edge_count_before(lists, i),
                        IF i < node_count THEN membership[i] ELSE None>>],
       edges |-> [k \in 0..(Len(flat) - 1) |-> flat[k + 1]],
       raster_columns_count |-> raster.raster_columns_count,
       raster_rows_count |-> raster.raster_rows_count,
       shortcut_rectangles |-> rects]

\* The code's test for a water node: its edge range is not empty.
is_water_node(g, i) == g.offsets[i] # g.offsets[i + 1]

\* copy of a node's edges that leaves out the last of them
node_edges_without_last(g, i) ==
  [k \in 1..(g.offsets[i + 1][1] - g.offsets[i][1] - 1) |-> g.edges[g.offsets[i][1] + k - 1]]

\* The edge list of node i, read back from the offsets.
node_edges(g, i) ==
  [k \in 1..(g.offsets[i + 1][1] - g.offsets[i][1]) |-> g.edges[g.offsets[i][1] + k - 1]]

\* Grid builder: a water node gets an edge to each water neighbour at
\* (col +- 1 mod C, row) and (col, row +- 1) when the row is in range.
grid_neighbours(raster, i) ==
  LET columns == raster.raster_columns_count
      col == i % columns
      row == i \div columns
  IN  << row * columns + ((col + 1) % columns),
         row * columns + ((col + columns - 1) % columns) >>
      \o (IF row + 1 < raster.raster_rows_count
          THEN << (row + 1) * columns + col >> ELSE << >>)
      \o (IF row > 0 THEN << (row - 1) * columns + col >> ELSE << >>)

grid_graph(raster, w) ==
  LET IsWater(j) == w[j]
      lists == [i \in DOMAIN w |->
                 IF w[i]
                 THEN LET nb == SelectSeq(grid_neighbours(raster, i), IsWater)
                      IN  [k \in 1..Len(nb) |-> Edge(nb[k], node_distance(raster, i, nb[k]))]
                 ELSE << >>]
  IN  new_graph(raster, lists, [i \in DOMAIN w |-> None], << >>)

\* The raster of the searches and the route queries.
Raster == [raster_columns_count |-> RasterColumns, raster_rows_count |-> RasterRows]

----------------------------------------------------------------------------
(* Priority queue entries and the search state *)

HeapNode(id, distance) == [id |-> id, distance |-> distance]

\* Ord for HeapNode: the result of a.cmp(b).
HeapNode_cmp(a, b) ==
  IF b.distance < a.distance THEN "Less"
  ELSE IF b.distance > a.distance THEN "Greater"
  ELSE IF a.id < b.id THEN "Less"
  ELSE IF a.id > b.id THEN "Greater"
  ELSE "Equal"

\* BinaryHeap<HeapNode> is a max-heap on that order.  A queue is modelled by
\* the set of its entries: a search pushes a node only with a key strictly
\* below every key it pushed for that node before, so no entry repeats, and
\* the array layout inside the heap is not observable.
heap_peek(queue) ==
  CHOOSE n \in queue : \A m \in queue : HeapNode_cmp(n, m) # "Less"

AlgorithmState_new(node_count) ==
  [distances     |-> [i \in 0..(node_count - 1) |-> U32_MAX],
   parent_nodes  |-> [i \in 0..(node_count - 1) |-> U32_MAX],
   queue         |-> {},
   distances2    |-> [i \in 0..(node_count - 1) |-> U32_MAX],
   parent_nodes2 |-> [i \in 0..(node_count - 1) |-> U32_MAX],
   queue2        |-> {}]

reset(st) ==
  [distances     |-> [i \in DOMAIN st.distances |-> U32_MAX],
   parent_nodes  |-> [i \in DOMAIN st.distances |-> U32_MAX],
   queue         |-> {},
   distances2    |-> [i \in DOMAIN st.distances |-> U32_MAX],
   parent_nodes2 |-> [i \in DOMAIN st.distances |-> U32_MAX],
   queue2        |-> {}]

\* PathResult
PathResult(path, distance, heap_pops) ==
  [path |-> path, distance |-> distance, heap_pops |-> heap_pops]

NoResult == PathResult(None, None, 0)

\* Locals of a running search.  pc is "loop" inside the while loop,
\* "returned" after a return and "panic" when the search aborted.  node and
\* node2 hold the entries popped in the latest pass; dirty is a history
\* flag: the AlgorithmState held leftovers of an earlier search at entry.
Call(alg, start, end) ==
  [alg |-> alg, start |-> start, end |-> end, pc |-> "loop", heap_pops |-> 0,
   shortest_distance |-> U32_MAX, middle_node |-> 0,
   start_rect |-> 0, end_rect |-> 0, node |-> None, node2 |-> None,
   dirty |-> FALSE]

IdleCall == [Call("none", 0, 0) EXCEPT !.pc = "idle"]

Running(st, c) == [state |-> st, call |-> c, result |-> NoResult]

Return(st, c, path, distance) ==
  [state |-> st, call |-> [c EXCEPT !.pc = "returned"],
   result |-> PathResult(path, distance, c.heap_pops)]

Panic(st, c) == [state |-> st, call |-> [c EXCEPT !.pc = "panic"], result |-> NoResult]

\* while node != stop { nodes.push(node); node = parents[node] as usize; }
\* An index outside the vector aborts the program; a walk that does not end
\* within the vector length has entered a cycle and never returns.
RECURSIVE walk_parents(_, _, _, _, _)
walk_parents(parents, node, stop, nodes, fuel) ==
  IF node = stop THEN [ok |-> TRUE, nodes |-> nodes]
  ELSE IF node \notin DOMAIN parents \/ fuel = 0 THEN [ok |-> FALSE, nodes |-> nodes]
  ELSE walk_parents(parents, parents[node], stop, Append(nodes, node), fuel - 1)

----------------------------------------------------------------------------
(* Graph::dijkstra *)

\* dijkstra that starts on the state as the previous search left it
dijkstra_enter_without_reset(g, start, end, st) ==
  Running([st EXCEPT !.distances[start] = 0,
                     !.queue = @ \cup {HeapNode(start, 0)}],
          Call("Dijkstra", start, end))

dijkstra_enter(g, start, end, st) ==
  LET s0 == reset(st)
  IN  Running([s0 EXCEPT !.distances[start] = 0,
                         !.queue = @ \cup {HeapNode(start, 0)}],
              Call("Dijkstra", start, end))

RECURSIVE dijkstra_relax(_, _, _, _, _)
dijkstra_relax(g, st, id, i, hi) ==
  IF i >= hi THEN st
  ELSE LET dest == g.edges[i].destination
           dist == g.edges[i].distance
           new_distance == st.distances[id] + dist
       IN  IF new_distance < st.distances[dest]
           THEN dijkstra_relax(g,
                  [st EXCEPT !.queue = @ \cup {HeapNode(dest, new_distance)},
                             !.distances[dest] = new_distance,
                             !.parent_nodes[dest] = id],
                  id, i + 1, hi)
           ELSE dijkstra_relax(g, st, id, i + 1, hi)

\* dijkstra that returns as soon as a relaxation has reached end
dijkstra_iter_return_on_relax(g, st, c) ==
  IF st.queue = {} THEN Return(st, c, None, None)
  ELSE LET node == heap_peek(st.queue)
           st1 == [st EXCEPT !.queue = @ \ {node}]
           c1 == [c EXCEPT !.heap_pops = @ + 1, !.node = Some(node)]
           st2 == IF node.id = c.end THEN st1
                  ELSE dijkstra_relax(g, st1, node.id, g.offsets[node.id][1],
                                      g.offsets[node.id + 1][1])
       IN  IF st2.distances[c.end] # U32_MAX
           THEN LET w == walk_parents(st2.parent_nodes, c.end, c.start, << >>,
                                     Cardinality(DOMAIN st2.parent_nodes))
                IN  IF w.ok
                    THEN Return(st2, c1, Some(Append(w.nodes, c.start)),
                                Some(st2.distances[c.end]))
                    ELSE Panic(st2, c1)
           ELSE Running(st2, c1)

\* a pass that reads the top of the queue and leaves it there, uncounted
dijkstra_iter_peek(g, st, c) ==
  IF st.queue = {} THEN Return(st, c, None, None)
  ELSE LET node == heap_peek(st.queue)
           c1 == [c EXCEPT !.node = Some(node)]
       IN  IF node.id = c.end
           THEN LET w == walk_parents(st.parent_nodes, c.end, c.start, << >>,
                                     Cardinality(DOMAIN st.parent_nodes))
                IN  IF w.ok
                    THEN Return(st, c1, Some(Append(w.nodes, c.start)),
                                Some(st.distances[c.end]))
                    ELSE Panic(st, c1)
           ELSE Running(dijkstra_relax(g, st, node.id, g.offsets[node.id][1],
                                       g.offsets[node.id + 1][1]), c1)

\* One pass of the while loop (or the fall-through when the queue is empty).
dijkstra_iter(g, st, c) ==
  IF st.queue = {} THEN Return(st, c, None, None)
  ELSE LET node == heap_peek(st.queue)
           st1 == [st EXCEPT !.queue = @ \ {node}]
           c1 == [c EXCEPT !.heap_pops = @ + 1, !.node = Some(node)]
       IN  IF node.id = c.end
           THEN LET w == walk_parents(st1.parent_nodes, c.end, c.start, << >>,
                                     Cardinality(DOMAIN st1.parent_nodes))
                IN  IF w.ok
                    THEN Return(st1, c1, Some(Append(w.nodes, c.start)),
                                Some(st1.distances[c.end]))
                    ELSE Panic(st1, c1)
           ELSE Running(dijkstra_relax(g, st1, node.id, g.offsets[node.id][1],
                                       g.offsets[node.id + 1][1]), c1)

----------------------------------------------------------------------------
(* Graph::bi_dijkstra *)

bi_dijkstra_enter(g, start, end, st) ==
  LET s0 == reset(st)
      s1 == [s0 EXCEPT !.distances[start] = 0,
                       !.queue = @ \cup {HeapNode(start, 0)}]
      s2 == [s1 EXCEPT !.distances2[end] = 0,
                       !.queue2 = @ \cup {HeapNode(end, 0)}]
  IN  Running(s2, Call("BiDijkstra", start, end))

\* forward relaxation whose meeting distance leaves out the relaxed edge
RECURSIVE bi_relax_forward_meeting_without_edge(_, _, _, _, _)
bi_relax_forward_meeting_without_edge(g, x, id, i, hi) ==
  IF i >= hi THEN x
  ELSE LET st == x.state
           dest == g.edges[i].destination
           dist == g.edges[i].distance
           new_distance == st.distances[id] + dist
       IN  IF new_distance < st.distances[dest]
           THEN LET st1 == [st EXCEPT !.queue = @ \cup {HeapNode(dest, new_distance)},
                                      !.distances[dest] = new_distance,
                                      !.parent_nodes[dest] = id]
                    d == st1.distances[id] + st1.distances2[dest]
                    better == st1.distances2[dest] # U32_MAX /\ d < x.shortest_distance
                IN  bi_relax_forward_meeting_without_edge(g,
                      [state |-> st1,
                       shortest_distance |-> IF better THEN d ELSE x.shortest_distance,
                       middle_node |-> IF better THEN dest ELSE x.middle_node],
                      id, i + 1, hi)
           ELSE bi_relax_forward_meeting_without_edge(g, x, id, i + 1, hi)

\* Forward relaxation loop: x carries the state and the two locals
\* shortest_distance and middle_node.
RECURSIVE bi_relax_forward(_, _, _, _, _)
bi_relax_forward(g, x, id, i, hi) ==
  IF i >= hi THEN x
  ELSE LET st == x.state
           dest == g.edges[i].destination
           dist == g.edges[i].distance
           new_distance == st.distances[id] + dist
       IN  IF new_distance < st.distances[dest]
           THEN LET st1 == [st EXCEPT !.queue = @ \cup {HeapNode(dest, new_distance)},
                                      !.distances[dest] = new_distance,
                                      !.parent_nodes[dest] = id]
                    d == st1.distances[id] + dist + st1.distances2[dest]
                    better == st1.distances2[dest] # U32_MAX /\ d < x.shortest_distance
                IN  bi_relax_forward(g,
                      [state |-> st1,
                       shortest_distance |-> IF better THEN d ELSE x.shortest_distance,
                       middle_node |-> IF better THEN dest ELSE x.middle_node],
                      id, i + 1, hi)
           ELSE bi_relax_forward(g, x, id, i + 1, hi)

RECURSIVE bi_relax_backward(_, _, _, _, _)
bi_relax_backward(g, x, id, i, hi) ==
  IF i >= hi THEN x
  ELSE LET st == x.state
           dest == g.edges[i].destination
           dist == g.edges[i].distance
           new_distance == st.distances2[id] + dist
       IN  IF new_distance < st.distances2[dest]
           THEN LET st1 == [st EXCEPT !.queue2 = @ \cup {HeapNode(dest, new_distance)},
                                      !.distances2[dest] = new_distance,
                                      !.parent_nodes2[dest] = id]
                    d == st1.distances[dest] + dist + st1.distances2[id]
                    better == st1.distances[dest] # U32_MAX /\ d < x.shortest_distance
                IN  bi_relax_backward(g,
                      [state |-> st1,
                       shortest_distance |-> IF better THEN d ELSE x.shortest_distance,
                       middle_node |-> IF better THEN dest ELSE x.middle_node],
                      id, i + 1, hi)
           ELSE bi_relax_backward(g, x, id, i + 1, hi)

\* bi_dijkstra path whose forward walk starts at the middle node itself
bi_path_from_middle(st, c) ==
  LET back == walk_parents(st.parent_nodes2, c.middle_node, c.end, << >>,
                      Cardinality(DOMAIN st.parent_nodes2))
      rev == LET b == Append(back.nodes, c.end)
             IN  [k \in 1..Len(b) |-> b[Len(b) + 1 - k]]
      fwd == walk_parents(st.parent_nodes, c.middle_node, c.start, rev,
                         Cardinality(DOMAIN st.parent_nodes))
  IN  IF back.ok /\ fwd.ok
      THEN [ok |-> TRUE, nodes |-> Append(fwd.nodes, c.start)]
      ELSE [ok |-> FALSE, nodes |-> << >>]

\* The path built at the termination test: the backward walk from the
\* middle node to end, reversed, then the forward walk from the parent of
\* the middle node to start.
bi_path(st, c) ==
  LET back == walk_parents(st.parent_nodes2, c.middle_node, c.end, << >>,
                      Cardinality(DOMAIN st.parent_nodes2))
      rev == LET b == Append(back.nodes, c.end)
             IN  [k \in 1..Len(b) |-> b[Len(b) + 1 - k]]
      first == st.parent_nodes[c.middle_node]
      fwd == walk_parents(st.parent_nodes, first, c.start, rev,
                         Cardinality(DOMAIN st.parent_nodes))
  IN  IF back.ok /\ fwd.ok
      THEN [ok |-> TRUE, nodes |-> Append(fwd.nodes, c.start)]
      ELSE [ok |-> FALSE, nodes |-> << >>]

bi_dijkstra_iter(g, st, c) ==
  IF st.queue = {} THEN Return(st, c, None, None)
  ELSE LET node == heap_peek(st.queue)
           st1 == [st EXCEPT !.queue = @ \ {node}]
       IN  IF st1.queue2 = {}
           THEN Return(st1, [c EXCEPT !.node = Some(node), !.node2 = None], None, None)
           ELSE LET node2 == heap_peek(st1.queue2)
                    st2 == [st1 EXCEPT !.queue2 = @ \ {node2}]
                    c1 == [c EXCEPT !.heap_pops = @ + 2,
                                    !.node = Some(node), !.node2 = Some(node2)]
                    found(w) ==
                      IF w.ok
                      THEN Return(st2, c1, Some(w.nodes),
                                  Some(st2.distances[c1.middle_node]
                                       + st2.distances2[c1.middle_node]))
                      ELSE Panic(st2, c1)
                    relaxed(x2) ==
                      Running(x2.state,
                              [c1 EXCEPT !.shortest_distance = x2.shortest_distance,
                                         !.middle_node = x2.middle_node])
                    x0 == [state |-> st2,
                           shortest_distance |-> c1.shortest_distance,
                           middle_node |-> c1.middle_node]
                    x1 == bi_relax_forward(g, x0, node.id,
                            g.offsets[node.id][1], g.offsets[node.id + 1][1])
                IN  IF st2.distances[node.id] + st2.distances2[node2.id]
                         >= c1.shortest_distance
                    THEN found(bi_path(st2, c1))
                    ELSE relaxed(bi_relax_backward(g, x1, node2.id,
                           g.offsets[node2.id][1], g.offsets[node2.id + 1][1]))

----------------------------------------------------------------------------
(* Graph::a_star *)

a_star_enter(g, start, end, st) ==
  LET s0 == reset(st)
  IN  Running([s0 EXCEPT !.distances[start] = 0,
                         !.queue = @ \cup {HeapNode(start, 0)}],
              Call("AStar", start, end))

RECURSIVE a_star_relax(_, _, _, _, _, _)
a_star_relax(g, st, id, end, i, hi) ==
  IF i >= hi THEN st
  ELSE LET dest == g.edges[i].destination
           dist == g.edges[i].distance
           g_value == st.distances[id] + dist
       IN  IF g_value < st.distances[dest]
           THEN a_star_relax(g,
                  [st EXCEPT !.parent_nodes[dest] = id,
                             !.distances[dest] = g_value,
                             !.queue = @ \cup
                               {HeapNode(dest, g_value + node_distance(g, dest, end))}],
                  id, end, i + 1, hi)
           ELSE a_star_relax(g, st, id, end, i + 1, hi)

\* a_star that reports distances[end] when the queue runs empty
a_star_iter_unreached_distance(g, st, c) ==
  IF st.queue = {} THEN Return(st, c, None, Some(st.distances[c.end]))
  ELSE LET node == heap_peek(st.queue)
           st1 == [st EXCEPT !.queue = @ \ {node}]
           c1 == [c EXCEPT !.heap_pops = @ + 1, !.node = Some(node)]
       IN  IF node.id = c.end
           THEN LET w == walk_parents(st1.parent_nodes, c.end, c.start, << >>,
                                     Cardinality(DOMAIN st1.parent_nodes))
                IN  IF w.ok
                    THEN Return(st1, c1, Some(Append(w.nodes, c.start)),
                                Some(st1.distances[c.end]))
                    ELSE Panic(st1, c1)
           ELSE Running(a_star_relax(g, st1, node.id, c.end, g.offsets[node.id][1],
                                     g.offsets[node.id + 1][1]), c1)

a_star_iter(g, st, c) ==
  IF st.queue = {} THEN Return(st, c, None, None)
  ELSE LET node == heap_peek(st.queue)
           st1 == [st EXCEPT !.queue = @ \ {node}]
           c1 == [c EXCEPT !.heap_pops = @ + 1, !.node = Some(node)]
       IN  IF node.id = c.end
           THEN LET w == walk_parents(st1.parent_nodes, c.end, c.start, << >>,
                                     Cardinality(DOMAIN st1.parent_nodes))
                IN  IF w.ok
                    THEN Return(st1, c1, Some(Append(w.nodes, c.start)),
                                Some(st1.distances[c.end]))
                    ELSE Panic(st1, c1)
           ELSE Running(a_star_relax(g, st1, node.id, c.end, g.offsets[node.id][1],
                                     g.offsets[node.id + 1][1]), c1)

----------------------------------------------------------------------------
(* Graph::shortcut_a_star *)

\* rectangle test that counts the border cells as inside
is_node_inside_rect_with_border(g, node, rect) ==
  /\ rect[1] <= node % g.raster_columns_count
  /\ rect[2] <= node \div g.raster_columns_count
  /\ node % g.raster_columns_count <= rect[3]
  /\ node \div g.raster_columns_count <= rect[4]

is_node_inside_rect(g, node, rect) ==
  /\ rect[1] < node % g.raster_columns_count
  /\ rect[2] < node \div g.raster_columns_count
  /\ node % g.raster_columns_count < rect[3]
  /\ node \div g.raster_columns_count < rect[4]

\* The loop over shortcut_rectangles keeps the last rectangle that holds the
\* node; the number of rectangles stands for "in none".
RECURSIVE find_rect(_, _, _, _)
find_rect(g, node, i, found) ==
  IF i >= Len(g.shortcut_rectangles) THEN found
  ELSE find_rect(g, node, i + 1,
                 IF is_node_inside_rect(g, node, g.shortcut_rectangles[i + 1])
                 THEN i ELSE found)

\* shortcut_a_star whose start_rect and end_rect begin at rectangle 0
shortcut_a_star_enter_rects_from_zero(g, start, end, st) ==
  LET s0 == reset(st)
  IN  Running([s0 EXCEPT !.distances[start] = 0,
                         !.queue = @ \cup {HeapNode(start, 0)}],
              [Call("ShortcutAStar", start, end) EXCEPT
                 !.start_rect = find_rect(g, start, 0, 0),
                 !.end_rect = find_rect(g, end, 0, 0)])

shortcut_a_star_enter(g, start, end, st) ==
  LET s0 == reset(st)
  IN  Running([s0 EXCEPT !.distances[start] = 0,
                         !.queue = @ \cup {HeapNode(start, 0)}],
              [Call("ShortcutAStar", start, end) EXCEPT
                 !.start_rect = find_rect(g, start, 0, Len(g.shortcut_rectangles)),
                 !.end_rect = find_rect(g, end, 0, Len(g.shortcut_rectangles))])

\* shortcut_a_star relaxation that skips every node inside a rectangle,
\* also the rectangles of start and end
RECURSIVE shortcut_a_star_relax_prune_all(_, _, _, _, _, _)
shortcut_a_star_relax_prune_all(g, st, c, id, i, hi) ==
  IF i >= hi THEN st
  ELSE LET dest == g.edges[i].destination
           dist == g.edges[i].distance
           g_value == st.distances[id] + dist
           rect == g.offsets[dest][2]
       IN  IF g_value < st.distances[dest] /\ ~IsSome(rect)
           THEN shortcut_a_star_relax_prune_all(g,
                  [st EXCEPT !.parent_nodes[dest] = id,
                             !.distances[dest] = g_value,
                             !.queue = @ \cup
                               {HeapNode(dest, g_value + node_distance(g, dest, c.end))}],
                  c, id, i + 1, hi)
           ELSE shortcut_a_star_relax_prune_all(g, st, c, id, i + 1, hi)

RECURSIVE shortcut_a_star_relax(_, _, _, _, _, _)
shortcut_a_star_relax(g, st, c, id, i, hi) ==
  IF i >= hi THEN st
  ELSE LET dest == g.edges[i].destination
           dist == g.edges[i].distance
           g_value == st.distances[id] + dist
           rect == g.offsets[dest][2]
       IN  IF g_value < st.distances[dest]
              /\ ~(IsSome(rect) /\ Unwrap(rect) # c.start_rect
                                /\ Unwrap(rect) # c.end_rect)
           THEN shortcut_a_star_relax(g,
                  [st EXCEPT !.parent_nodes[dest] = id,
                             !.distances[dest] = g_value,
                             !.queue = @ \cup
                               {HeapNode(dest, g_value + node_distance(g, dest, c.end))}],
                  c, id, i + 1, hi)
           ELSE shortcut_a_star_relax(g, st, c, id, i + 1, hi)

shortcut_a_star_iter(g, st, c) ==
  IF st.queue = {} THEN Return(st, c, None, None)
  ELSE LET node == heap_peek(st.queue)
           st1 == [st EXCEPT !.queue = @ \ {node}]
           c1 == [c EXCEPT !.heap_pops = @ + 1, !.node = Some(node)]
       IN  IF node.id = c.end
           THEN LET w == walk_parents(st1.parent_nodes, c.end, c.start, << >>,
                                     Cardinality(DOMAIN st1.parent_nodes))
                IN  IF w.ok
                    THEN Return(st1, c1, Some(Append(w.nodes, c.start)),
                                Some(st1.distances[c.end]))
                    ELSE Panic(st1, c1)
           ELSE Running(shortcut_a_star_relax(g, st1, c1, node.id, g.offsets[node.id][1],
                                              g.offsets[node.id + 1][1]), c1)

----------------------------------------------------------------------------
(* Dispatch on ExecutionType, and a search run to its end *)

ExecutionType == {"Dijkstra", "BiDijkstra", "AStar", "ShortcutAStar"}

search_enter(alg, g, start, end, st) ==
  CASE alg = "Dijkstra"      -> dijkstra_enter(g, start, end, st)
    [] alg = "BiDijkstra"    -> bi_dijkstra_enter(g, start, end, st)
    [] alg = "AStar"         -> a_star_enter(g, start, end, st)
    [] alg = "ShortcutAStar" -> shortcut_a_star_enter(g, start, end, st)

search_iter(g, st, c) ==
  CASE c.alg = "Dijkstra"      -> dijkstra_iter(g, st, c)
    [] c.alg = "BiDijkstra"    -> bi_dijkstra_iter(g, st, c)
    [] c.alg = "AStar"         -> a_star_iter(g, st, c)
    [] c.alg = "ShortcutAStar" -> shortcut_a_star_iter(g, st, c)

RECURSIVE run_loop(_, _)
run_loop(g, x) ==
  IF x.call.pc # "loop" THEN x ELSE run_loop(g, search_iter(g, x.state, x.call))

\* A whole call of one search function: what the caller sees on return.
search(alg, g, start, end, st) == run_loop(g, search_enter(alg, g, start, end, st))

----------------------------------------------------------------------------
(* create_shortcuts: add_edges and create_graph *)

get_index(g, col, row) == row * g.raster_columns_count + col

RECURSIVE concat(_)
concat(ss) == IF ss = << >> THEN << >> ELSE Head(ss) \o concat(Tail(ss))

\* The (index1, index2) arguments of the add_edges calls made for one
\* rectangle, in the order of the three loop nests.
border_pairs(g, rect) ==
  LET left == rect[1]
      top == rect[2]
      right == rect[3]
      bottom == rect[4]
      lefts   == [k \in 1..(bottom - top + 1) |-> get_index(g, left, top + k - 1)]
      tops    == [k \in 1..(right - left + 1) |-> get_index(g, left + k - 1, top)]
      rights  == [k \in 1..(bottom - top + 1) |-> get_index(g, right, top + k - 1)]
      bottoms == [k \in 1..(right - left + 1) |-> get_index(g, left + k - 1, bottom)]
      with(i, side) == [k \in DOMAIN side |-> <<i, side[k]>>]
  IN  concat([k \in DOMAIN lefts |->
                with(lefts[k], tops) \o with(lefts[k], rights) \o with(lefts[k], bottoms)])
      \o concat([k \in DOMAIN tops |-> with(tops[k], rights) \o with(tops[k], bottoms)])
      \o concat([k \in DOMAIN rights |-> with(rights[k], bottoms)])

\* add_edges that weights a shortcut with the straight great-circle distance
add_edges_great_circle(g, x, index1, index2) ==
  LET push(r) ==
        IF r.call.pc = "returned" /\ IsSome(r.result.distance)
        THEN LET distance == node_distance(g, index1, index2)
             IN  [ok |-> x.ok, state |-> r.state,
                  edges |-> [x.edges EXCEPT ![index1] = Append(@, Edge(index2, distance)),
                                            ![index2] = Append(@, Edge(index1, distance))]]
        ELSE [ok |-> FALSE, state |-> r.state, edges |-> x.edges]
  IN  push(search("BiDijkstra", g, index1, index2, x.state))

\* x carries the worker's edge buffer and AlgorithmState; ok turns FALSE when
\* distance.unwrap() aborts on a search that found no path.
add_edges(g, x, index1, index2) ==
  LET push(r) ==
        IF r.call.pc = "returned" /\ IsSome(r.result.distance)
        THEN LET distance == Unwrap(r.result.distance)
             IN  [ok |-> x.ok, state |-> r.state,
                  edges |-> [x.edges EXCEPT ![index1] = Append(@, Edge(index2, distance)),
                                            ![index2] = Append(@, Edge(index1, distance))]]
        ELSE [ok |-> FALSE, state |-> r.state, edges |-> x.edges]
  IN  push(search("BiDijkstra", g, index1, index2, x.state))

RECURSIVE rectangle_worker(_, _, _, _)
rectangle_worker(g, x, pairs, k) ==
  IF k > Len(pairs) \/ ~x.ok THEN x
  ELSE rectangle_worker(g, add_edges(g, x, pairs[k][1], pairs[k][2]), pairs, k + 1)

\* The local_edges of the worker of one rectangle.
local_edges(g, rect) ==
  rectangle_worker(g, [ok |-> TRUE,
                       state |-> AlgorithmState_new(g.raster_rows_count
                                                    * g.raster_columns_count),
                       edges |-> [i \in 0..(g.raster_rows_count * g.raster_columns_count - 1)
                                    |-> << >>]],
                   border_pairs(g, rect), 1)

\* The annotation of a node in the overlay: the rectangle it lies strictly
\* inside of, if any.
rect_membership(g, rects, node) ==
  LET holding == {r \in 1..Len(rects) : is_node_inside_rect(g, node, rects[r])}
  IN  IF holding = {} THEN None
      ELSE Some((CHOOSE r \in holding : \A q \in holding : r <= q) - 1)

\* Merges the buffers of the workers in the order they take the lock.
RECURSIVE merge_workers(_, _, _, _, _)
merge_workers(g, rects, order, k, edges) ==
  IF k > Len(order) THEN [ok |-> TRUE, edges |-> edges]
  ELSE LET locked(w) ==
             IF ~w.ok THEN [ok |-> FALSE, edges |-> edges]
             ELSE merge_workers(g, rects, order, k + 1,
                                [i \in DOMAIN edges |-> edges[i] \o w.edges[i]])
       IN  locked(local_edges(g, rects[order[k]]))

create_graph(g, rects, order) ==
  LET laid_out(merged) ==
        [ok |-> merged.ok,
         graph |-> new_graph(g, merged.edges,
                             [i \in DOMAIN merged.edges |-> rect_membership(g, rects, i)],
                             rects)]
  IN  laid_out(merge_workers(g, rects, order, 1,
                             [i \in 0..(g.raster_rows_count * g.raster_columns_count - 1)
                                |-> node_edges(g, i)]))

----------------------------------------------------------------------------
(* The searches as a state machine: the benchmark's calls on one shared   *)
(* AlgorithmState, one while-loop pass per step                            *)

\* Land is drawn from these cells: the four together enclose the sea
\* {12, 13}, and 9 lies inside the first rectangle below.
LandCandidates == {8, 9, 14, 15}

Masks ==
  {[i \in Nodes |-> i \notin L] :
     L \in {S \in SUBSET LandCandidates : Cardinality(S) <= MaxLand}}

\* Rectangle lists handed to create_graph, as (left, top, right, bottom);
\* main parses at least one rectangle before it calls create_graph.
RectangleLists == { << <<0, 0, 3, 3>> >>, << <<0, 0, 3, 1>> >> }

NoFindPath ==
  [called |-> FALSE, execution_type |-> "none", pc |-> "idle",
   nearest_start_node |-> None, nearest_end_node |-> None,
   searched |-> FALSE, coordinates |-> << >>, found |-> NoResult, result |-> None]

\* create_graph after its return: the rectangles it was given and the
\* order in which the workers merged; the edges under the lock are dropped.
Built(rects, order) ==
  [pc |-> "built", rects |-> rects, merged |-> order, edges |-> << >>]

\* The graph a variant is run on: the overlay for the shortcut variant.
graph_of(alg) == IF alg = "ShortcutAStar" THEN shortcut_graph ELSE graph

InitSearch ==
  /\ water \in Masks
  /\ graph = grid_graph(Raster, water)
  /\ \E rects \in RectangleLists :
       LET written(built) == built.ok /\ shortcut_graph = built.graph
       IN  /\ written(create_graph(graph, rects, [k \in 1..Len(rects) |-> k]))
           /\ build = Built(rects, [k \in 1..Len(rects) |-> k])
  /\ chosen_nodes \in Nodes \X Nodes
  /\ extract = NoExtract
  /\ draft = NoDraft
  /\ classifier = NoClassifier
  /\ picker = NoPicker
  /\ chosen_points = <<0, 0, 0, 0>>
  /\ state = AlgorithmState_new(NodeCount)
  /\ call = IdleCall
  /\ result = NoResult
  /\ fp = NoFindPath

\* A caller invokes a search for the chosen pair on the shared state.
StartSearch(alg) ==
  /\ call.pc \in {"idle", "returned"}
  /\ LET entered(x) ==
           /\ state' = x.state
           /\ call' = [x.call EXCEPT !.dirty = (state # AlgorithmState_new(NodeCount))]
           /\ result' = x.result
     IN  entered(search_enter(alg, graph_of(alg), chosen_nodes[1], chosen_nodes[2], state))
  /\ UNCHANGED <<water, graph, shortcut_graph, chosen_nodes, chosen_points, fp, build, extract,
                 draft, classifier, picker>>

\* One pass of the while loop of the running search, up to a return.
IterateSearch ==
  /\ call.pc = "loop"
  /\ LET passed(x) == state' = x.state /\ call' = x.call /\ result' = x.result
     IN  passed(search_iter(graph_of(call.alg), state, call))
  /\ UNCHANGED <<water, graph, shortcut_graph, chosen_nodes, chosen_points, fp, build, extract,
                 draft, classifier, picker>>

NextSearch ==
  \/ \E alg \in ExecutionType : StartSearch(alg)
  \/ IterateSearch

SpecSearch == InitSearch /\ [][NextSearch]_vars

\* The next pass of the running search would change the state.
PassChanges ==
  LET differs(x) == x.state # state \/ x.call # call \/ x.result # result
  IN  differs(search_iter(graph_of(call.alg), state, call))

\* A search is a synchronous loop of one thread: once started, its next pass
\* is taken.  This is weak fairness of IterateSearch, WF_vars(IterateSearch),
\* written out with the states in which a pass can change the state in the
\* place of ENABLED <<IterateSearch>>_vars.
\* The rasters the fair runs start from: all water, a land strip, and the
\* land block that cuts cells 12 and 13 off from the rest.
FairSearchLand == { {}, {8, 9}, {8, 9, 14, 15} }

InitFairSearch == InitSearch /\ {i \in Nodes : ~water[i]} \in FairSearchLand

FairSearch ==
  /\ InitFairSearch
  /\ [][NextSearch]_vars
  /\ ([]<>~(call.pc = "loop" /\ PassChanges) \/ []<><<IterateSearch>>_vars)

----------------------------------------------------------------------------
(* Graph::find_nearest_node and Graph::find_path *)

\* The loop over neighbor_ids.  offsets[neighbor + 1] is an indexing of a
\* Vec: past its end the program aborts.
RECURSIVE nearest_loop(_, _, _, _, _, _)
nearest_loop(g, lon, lat, neighbor_ids, k, x) ==
  IF k > Len(neighbor_ids) \/ x.panic THEN x
  ELSE LET neighbor == neighbor_ids[k]
       IN  IF neighbor + 1 \notin DOMAIN g.offsets
           THEN [x EXCEPT !.panic = TRUE]
           ELSE LET distance == calculate_distance(lon, lat, get_lon(g, neighbor),
                                                   get_lat(g, neighbor))
                    is_neigbor_water == g.offsets[neighbor] # g.offsets[neighbor + 1]
                IN  nearest_loop(g, lon, lat, neighbor_ids, k + 1,
                      IF is_neigbor_water /\ distance < x.min_distance
                      THEN [x EXCEPT !.best_neighbor = neighbor, !.min_distance = distance]
                      ELSE x)

find_nearest_node(g, lon, lat) ==
  LET step_size_lon == 3600 \div g.raster_columns_count
      lon_index_left == (lon + 1800) \div step_size_lon
      lon_index_right == (lon_index_left + 1) % g.raster_columns_count
      step_size_lat == 1800 \div g.raster_rows_count
      lat_index_top == (900 - lat) \div step_size_lat
      lat_index_bottom == (lat_index_top + 1) % g.raster_rows_count
      neighbor_ids == << (lat_index_top * g.raster_columns_count) + lon_index_left,
                         (lat_index_top * g.raster_columns_count) + lon_index_right,
                         (lat_index_bottom * g.raster_columns_count) + lon_index_left,
                         (lat_index_bottom * g.raster_columns_count) + lon_index_right >>
      x == nearest_loop(g, lon, lat, neighbor_ids, 1,
                        [panic |-> FALSE, best_neighbor |-> neighbor_ids[1],
                         min_distance |-> U32_MAX])
  IN  [panic |-> x.panic,
       node |-> IF x.panic \/ x.min_distance = U32_MAX THEN None ELSE Some(x.best_neighbor)]

\* The first line of a feature that continues after a cut at the antimeridian.
line_head(coordinates, line_start, lon_start) ==
  IF line_start > 0 THEN << <<lon_start, coordinates[line_start + 1][2]>> >> ELSE << >>

\* "Split up lines crossing the antimeridan": the loop over 1..coordinates.len()
\* and the feature pushed after it.  i and line_start count from 0 as in the
\* code; coordinates is a sequence, so coordinates[i] of the code is
\* coordinates[i + 1] here.
RECURSIVE split_lines(_, _, _, _, _)
split_lines(coordinates, i, line_start, lon_start, features) ==
  IF i >= Len(coordinates)
  THEN Append(features,
              line_head(coordinates, line_start, lon_start)
              \o SubSeq(coordinates, line_start + 1, Len(coordinates)))
  ELSE IF Abs(coordinates[i][1] - coordinates[i + 1][1]) > 1800
       THEN LET lon_end == IF coordinates[i][1] < 0 THEN -1800 ELSE 1800
                line_coordinates ==
                  line_head(coordinates, line_start, lon_start)
                  \o SubSeq(coordinates, line_start + 1, i - 1)
                  \o << <<lon_end, coordinates[i][2]>> >>
            IN  split_lines(coordinates, i + 1, i, -lon_end,
                            Append(features, line_coordinates))
       ELSE split_lines(coordinates, i + 1, line_start, lon_start, features)

\* What a find_path call leaves behind: pc is "returned" or "panic", result
\* the Option<(GEOJson, distance)> it returned, state the AlgorithmState
\* after it; the two snapped nodes and searched (a search function was
\* called) are locals of the call kept for the properties, as are
\* coordinates (the vector before it is split) and found (the PathResult
\* of the search).
FindPathOutcome(pc, st, nearest_start_node, nearest_end_node, searched, res) ==
  [pc |-> pc, state |-> st, nearest_start_node |-> nearest_start_node,
   nearest_end_node |-> nearest_end_node, searched |-> searched,
   coordinates |-> << >>, found |-> NoResult, result |-> res]

\* coordinates after the pushes: the user end point, the path nodes in the
\* order the search returned them, the user start point.
path_coordinates(g, lon1, lat1, lon2, lat2, path) ==
  << <<lon2, lat2>> >>
  \o [k \in 1..Len(path) |-> <<get_lon(g, path[k]), get_lat(g, path[k])>>]
  \o << <<lon1, lat1>> >>

\* route distance whose two legs meet the wrong ends of the path
route_distance_legs_swapped(g, lon1, lat1, lon2, lat2, path, distance) ==
  distance
  + calculate_distance(lon1, lat1, get_lon(g, path[1]), get_lat(g, path[1]))
  + calculate_distance(get_lon(g, path[Len(path)]), get_lat(g, path[Len(path)]),
                       lon2, lat2)

\* distance after the three additions of the search branch.
route_distance(g, lon1, lat1, lon2, lat2, path, distance) ==
  distance
  + calculate_distance(lon1, lat1, get_lon(g, path[Len(path)]),
                       get_lat(g, path[Len(path)]))
  + calculate_distance(get_lon(g, path[1]), get_lat(g, path[1]), lon2, lat2)

find_path(g, lon1, lat1, lon2, lat2, execution_type, st) ==
  LET routed(nearest_start_node, nearest_end_node, r) ==
        IF r.call.pc = "panic"
        THEN FindPathOutcome("panic", r.state, nearest_start_node, nearest_end_node,
                             TRUE, None)
        ELSE IF r.result.path = None \/ r.result.distance = None
        THEN [FindPathOutcome("returned", r.state, nearest_start_node,
                              nearest_end_node, TRUE, None)
                EXCEPT !.coordinates = << <<lon2, lat2>> >>, !.found = r.result]
        ELSE LET path == Unwrap(r.result.path)
                 coordinates == path_coordinates(g, lon1, lat1, lon2, lat2, path)
                 distance == route_distance(g, lon1, lat1, lon2, lat2, path,
                                            Unwrap(r.result.distance))
             IN  [FindPathOutcome("returned", r.state, nearest_start_node,
                    nearest_end_node, TRUE,
                    Some([features |-> split_lines(coordinates, 1, 0, 0, << >>),
                          distance |-> distance]))
                  EXCEPT !.coordinates = coordinates, !.found = r.result]
      snapped(nearest_start_node, nearest_end_node) ==
        IF nearest_start_node.panic \/ nearest_end_node.panic
        THEN FindPathOutcome("panic", st, None, None, FALSE, None)
        ELSE IF nearest_start_node.node = None \/ nearest_end_node.node = None
        THEN [FindPathOutcome("returned", st, nearest_start_node.node,
                              nearest_end_node.node, FALSE, None)
                EXCEPT !.coordinates = << <<lon2, lat2>> >>]
        ELSE IF nearest_start_node.node = nearest_end_node.node
        THEN [FindPathOutcome("returned", st, nearest_start_node.node,
                nearest_end_node.node, FALSE,
                Some([features |-> split_lines(<< <<lon2, lat2>>, <<lon1, lat1>> >>,
                                               1, 0, 0, << >>),
                      distance |-> calculate_distance(lon1, lat1, lon2, lat2)]))
                EXCEPT !.coordinates = << <<lon2, lat2>>, <<lon1, lat1>> >>]
        ELSE routed(nearest_start_node.node, nearest_end_node.node,
                    search(execution_type, g, Unwrap(nearest_start_node.node),
                           Unwrap(nearest_end_node.node), st))
  IN  snapped(find_nearest_node(g, lon1, lat1), find_nearest_node(g, lon2, lat2))

----------------------------------------------------------------------------
(* Route queries as a state machine: find_path calls on one AlgorithmState *)

\* Rasters of the queries: open sea, a land block that fills the bracket of
\* a point, and the enclosed sea {12, 13}.
FindPathLand == { {}, {8, 9, 12, 13}, {8, 9, 14, 15} }

\* Longitudes and latitudes of the user points, in tenths of a degree.
QueryLons == {-1800, -1350, 450, 1350, 1800}
QueryLats == {900, 225, -225, -450, -675, -900}

lon1 == chosen_points[1]
lat1 == chosen_points[2]
lon2 == chosen_points[3]
lat2 == chosen_points[4]

InitFindPath ==
  /\ water \in {[i \in Nodes |-> i \notin L] : L \in FindPathLand}
  /\ graph = grid_graph(Raster, water)
  /\ \E rects \in RectangleLists :
       LET written(built) == built.ok /\ shortcut_graph = built.graph
       IN  /\ written(create_graph(graph, rects, [k \in 1..Len(rects) |-> k]))
           /\ build = Built(rects, [k \in 1..Len(rects) |-> k])
  /\ chosen_nodes = <<0, 0>>
  /\ extract = NoExtract
  /\ draft = NoDraft
  /\ classifier = NoClassifier
  /\ picker = NoPicker
  /\ chosen_points \in QueryLons \X QueryLats \X QueryLons \X QueryLats
  /\ state = AlgorithmState_new(NodeCount)
  /\ call = IdleCall
  /\ result = NoResult
  /\ fp = NoFindPath

\* A whole call of find_path for the chosen points; an aborted program
\* takes no further step.
FindPath(execution_type) ==
  /\ fp.pc # "panic"
  /\ LET answered(r) ==
           /\ state' = r.state
           /\ fp' = [called |-> TRUE, execution_type |-> execution_type, pc |-> r.pc,
                     nearest_start_node |-> r.nearest_start_node,
                     nearest_end_node |-> r.nearest_end_node,
                     searched |-> r.searched, coordinates |-> r.coordinates,
                     found |-> r.found, result |-> r.result]
     IN  answered(find_path(graph_of(execution_type), lon1, lat1, lon2, lat2,
                            execution_type, state))
  /\ UNCHANGED <<water, graph, shortcut_graph, chosen_nodes, chosen_points, call, result,
                 build, extract,
                 draft, classifier, picker>>

NextFindPath == \E execution_type \in ExecutionType : FindPath(execution_type)

SpecFindPath == InitFindPath /\ [][NextFindPath]_vars

----------------------------------------------------------------------------
(* create_graph as a state machine: one worker per rectangle, each merging *)
(* its local_edges under the lock when it is done                          *)

\* The builder runs on a raster of 4 x 8 cells (rows 22.5 degrees apart), so
\* that a rectangle side can hold five cells.
BuildRasterRows == 8
BuildRaster == [raster_columns_count |-> RasterColumns, raster_rows_count |-> BuildRasterRows]
BuildNodes == 0..(RasterColumns * BuildRasterRows - 1)

\* Land is drawn from: 5 (inside the rectangle (0,0,2,2), on the border of
\* (0,0,1,4)), 8 (on a border of both), 21 (inside (0,4,2,6)), 30 (outside
\* every rectangle).
BuildLandCandidates == {5, 8, 21, 30}

\* Rectangle lists as (left, top, right, bottom): one with sides of five
\* cells, two that share the border column 2, one further south.
BuildRectangleLists ==
  { << <<0, 0, 1, 4>> >>,
    << <<0, 0, 2, 2>>, <<2, 0, 3, 2>> >>,
    << <<0, 4, 2, 6>> >> }

InitCreate ==
  /\ water \in {[i \in BuildNodes |-> i \notin L] :
                  L \in {S \in SUBSET BuildLandCandidates : Cardinality(S) <= MaxLand}}
  /\ graph = grid_graph(BuildRaster, water)
  /\ shortcut_graph = None
  /\ \E rects \in BuildRectangleLists :
       build = [pc |-> "workers", rects |-> rects, merged |-> << >>,
                edges |-> [i \in BuildNodes |-> node_edges(graph, i)]]
  /\ chosen_nodes = <<0, 0>>
  /\ extract = NoExtract
  /\ draft = NoDraft
  /\ classifier = NoClassifier
  /\ picker = NoPicker
  /\ chosen_points = <<0, 0, 0, 0>>
  /\ state = AlgorithmState_new(NodeCount)
  /\ call = IdleCall
  /\ result = NoResult
  /\ fp = NoFindPath

\* a merge that appends the batch to the base edges it read before taking
\* the lock, and so drops what other workers merged in between
MergeWorker_on_stale_edges(r) ==
  /\ build.pc = "workers"
  /\ \A k \in 1..Len(build.merged) : build.merged[k] # r
  /\ LET locked(w) ==
           build' = IF w.ok
                    THEN [build EXCEPT !.edges = [i \in DOMAIN @ |->
                                                   node_edges(graph, i) \o w.edges[i]],
                                       !.merged = Append(@, r)]
                    ELSE [build EXCEPT !.pc = "panic"]
     IN  locked(local_edges(graph, build.rects[r]))
  /\ UNCHANGED <<water, graph, shortcut_graph, chosen_nodes, chosen_points, state, call,
                 result, fp, extract,
                 draft, classifier, picker>>

\* The worker of rectangle r has computed its local_edges and takes the
\* lock to append them; a worker whose add_edges aborted ends the build.
MergeWorker(r) ==
  /\ build.pc = "workers"
  /\ \A k \in 1..Len(build.merged) : build.merged[k] # r
  /\ LET locked(w) ==
           build' = IF w.ok
                    THEN [build EXCEPT !.edges = [i \in DOMAIN @ |-> @[i] \o w.edges[i]],
                                       !.merged = Append(@, r)]
                    ELSE [build EXCEPT !.pc = "panic"]
     IN  locked(local_edges(graph, build.rects[r]))
  /\ UNCHANGED <<water, graph, shortcut_graph, chosen_nodes, chosen_points, state, call,
                 result, fp, extract,
                 draft, classifier, picker>>

\* All workers have merged: the edges are laid out as the new graph.
WriteGraph ==
  /\ build.pc = "workers"
  /\ Len(build.merged) = Len(build.rects)
  /\ shortcut_graph' =
       new_graph(graph, build.edges,
                 [i \in DOMAIN build.edges |-> rect_membership(graph, build.rects, i)],
                 build.rects)
  /\ build' = Built(build.rects, build.merged)
  /\ UNCHANGED <<water, graph, chosen_nodes, chosen_points, state, call, result, fp, extract,
                 draft, classifier, picker>>

NextCreate ==
  \/ \E r \in 1..Len(build.rects) : MergeWorker(r)
  \/ WriteGraph

SpecCreate == InitCreate /\ [][NextCreate]_vars

----------------------------------------------------------------------------
\* The coast assembler: Coasts::new_from_pbffile of the extract crate.
\* A Coordinate is <<lon, lat>>; the HashMaps nodes and coasts are functions
\* over their keys; a Coast is a record of coordinates, leftmost, rightmost.

MaxWays == 3

Coordinate(lon, lat) == <<lon, lat>>

is_equal(a, b) == a[1] = b[1] /\ a[2] = b[2]

Coast(coordinates, leftmost, rightmost) ==
  [coordinates |-> coordinates, leftmost |-> leftmost, rightmost |-> rightmost]

get_first(coast) == coast.coordinates[1]
get_last(coast) == coast.coordinates[Len(coast.coordinates)]

\* HashMap::insert and HashMap::remove.
insert(map, key, value) == [k \in DOMAIN map \cup {key} |-> IF k = key THEN value ELSE map[k]]
remove(map, key) == [k \in DOMAIN map \ {key} |-> map[k]]

\* The loop over the node references of a way: the coordinates of the nodes
\* in order, with the smallest and the largest longitude among them.
RECURSIVE way_coast(_, _, _, _)
way_coast(nodes, refs, k, coast) ==
  IF k > Len(refs) THEN coast
  ELSE LET n == nodes[refs[k]]
       IN  way_coast(nodes, refs, k + 1,
                     Coast(Append(coast.coordinates, n),
                           IF n[1] < coast.leftmost THEN n[1] ELSE coast.leftmost,
                           IF n[1] > coast.rightmost THEN n[1] ELSE coast.rightmost))

\* One turn of the loop over the objects of the file: a node is entered in
\* nodes, a way becomes a Coast entered in coasts under its first
\* coordinate, any other object is passed over.  A way that refers to a
\* node not read before, or that has no node, ends the program.
read_object(x, obj) ==
  LET counted == [x EXCEPT !.read = @ + 1, !.counter = @ + 1]
      entered(coast) ==
        [counted EXCEPT !.coasts = insert(@, get_first(coast), coast)]
  IN  CASE obj.kind = "Node" ->
             [counted EXCEPT !.nodes = insert(@, obj.id,
                                              Coordinate(obj.decimicro_lon, obj.decimicro_lat))]
        [] obj.kind = "Way" ->
             IF \/ \E k \in 1..Len(obj.nodes) : obj.nodes[k] \notin DOMAIN x.nodes
                \/ Len(obj.nodes) = 0
             THEN [counted EXCEPT !.pc = "panic"]
             ELSE entered(way_coast(x.nodes, obj.nodes, 1, Coast(<< >>, I32_MAX, I32_MIN)))
        [] OTHER -> counted

\* a merge that leaves out the first coordinate of the appended fragment
merge_coast_without_joint(x, coordinate) ==
  [x EXCEPT !.counter = @ + 1,
            !.current_coast =
              Some([Unwrap(@) EXCEPT !.coordinates =
                      @ \o SubSeq(x.coasts[coordinate].coordinates, 2,
                                  Len(x.coasts[coordinate].coordinates))]),
            !.coasts = remove(@, coordinate)]

\* The body of the while loop when the map holds the continuation: its
\* coordinates are appended to the current coast and it leaves the map.
merge_coast(x, coordinate) ==
  [x EXCEPT !.counter = @ + 1,
            !.current_coast =
              Some([Unwrap(@) EXCEPT !.coordinates = @ \o x.coasts[coordinate].coordinates]),
            !.coasts = remove(@, coordinate)]

\* Taking the coast under a key out of the map as the current coast.
take_coast(x, key) ==
  [x EXCEPT !.current_coast = Some(x.coasts[key]), !.coasts = remove(@, key)]

\* The nodes of the input: five nodes, the fifth at the place of the first.
OsmNodes ==
  << [kind |-> "Node", id |-> 1, decimicro_lon |-> 0, decimicro_lat |-> 0],
     [kind |-> "Node", id |-> 2, decimicro_lon |-> 100, decimicro_lat |-> 0],
     [kind |-> "Node", id |-> 3, decimicro_lon |-> 200, decimicro_lat |-> 100],
     [kind |-> "Node", id |-> 4, decimicro_lon |-> -100, decimicro_lat |-> 100],
     [kind |-> "Node", id |-> 5, decimicro_lon |-> 0, decimicro_lat |-> 0] >>

OsmRelation == [kind |-> "Relation"]

\* The ways an input is drawn from, as lists of node ids: open fragments
\* that chain into rings, a closed way, a way of one node, two ways that
\* start at the same place, and a way that names a node the file lacks.
OsmWays ==
  { <<1, 2>>, <<2, 3, 1>>, <<2, 4, 5>>, <<3, 4, 3>>, <<3, 1>>, <<1, 3>>, <<2, 3>>,
    <<4>>, <<1, 6>> }

Way(refs) == [kind |-> "Way", nodes |-> refs]

\* The files: the nodes, a relation, then up to MaxWays different ways.
PbfFiles ==
  { OsmNodes \o <<OsmRelation>> \o [k \in DOMAIN ws |-> Way(ws[k])] :
      ws \in {q \in UNION {[1..m -> OsmWays] : m \in 0..MaxWays} :
                \A i, j \in DOMAIN q : i # j => q[i] # q[j]} }

InitCoasts ==
  /\ extract \in {[NoExtract EXCEPT !.pc = "read", !.pbf = file] : file \in PbfFiles}
  /\ water = [i \in Nodes |-> TRUE]
  /\ graph = None
  /\ shortcut_graph = None
  /\ chosen_nodes = <<0, 0>>
  /\ chosen_points = <<0, 0, 0, 0>>
  /\ state = AlgorithmState_new(NodeCount)
  /\ call = IdleCall
  /\ result = NoResult
  /\ fp = NoFindPath
  /\ build = Built(<< >>, << >>)
  /\ draft = NoDraft
  /\ classifier = NoClassifier
  /\ picker = NoPicker

OtherThanExtract ==
  <<water, graph, shortcut_graph, chosen_nodes, chosen_points, state, call, result, fp, build,
    draft, classifier, picker>>

\* for obj in pbf.iter()
ReadObject ==
  /\ extract.pc = "read"
  /\ extract.read < Len(extract.pbf)
  /\ extract' = read_object(extract, extract.pbf[extract.read + 1])
  /\ UNCHANGED OtherThanExtract

\* The file is read: any key of the map gives the first current coast; an
\* empty map ends the program at the unwrap.
FirstCoast ==
  /\ extract.pc = "read"
  /\ extract.read = Len(extract.pbf)
  /\ \/ /\ DOMAIN extract.coasts = {}
        /\ extract' = [extract EXCEPT !.pc = "panic"]
     \/ \E first_key \in DOMAIN extract.coasts :
          extract' = [take_coast(extract, first_key) EXCEPT !.pc = "merge", !.counter = 1]
  /\ UNCHANGED OtherThanExtract

\* One turn of the while loop: the current coast is not closed; with the
\* continuation in the map it is merged, without it the turn changes nothing
\* and the loop takes the same turn again.
MergeCoast ==
  /\ extract.pc = "merge"
  /\ ~is_equal(get_first(Unwrap(extract.current_coast)),
               get_last(Unwrap(extract.current_coast)))
  /\ LET coordinate == get_last(Unwrap(extract.current_coast))
     IN  extract' = IF coordinate \in DOMAIN extract.coasts
                    THEN merge_coast(extract, coordinate)
                    ELSE extract
  /\ UNCHANGED OtherThanExtract

\* The current coast is closed: it is pushed, and either the map is empty
\* and the loop breaks, or any key of the map gives the next current coast.
PushCoast ==
  /\ extract.pc = "merge"
  /\ is_equal(get_first(Unwrap(extract.current_coast)),
              get_last(Unwrap(extract.current_coast)))
  /\ LET pushed == [extract EXCEPT !.actual_coasts = Append(@, Unwrap(extract.current_coast)),
                                   !.current_coast = None]
     IN  \/ /\ DOMAIN extract.coasts = {}
            /\ extract' = [pushed EXCEPT !.pc = "done"]
         \/ \E next_key \in DOMAIN extract.coasts :
              extract' = [take_coast(pushed, next_key) EXCEPT !.counter = @ + 1]
  /\ UNCHANGED OtherThanExtract

NextCoasts ==
  \/ ReadObject
  \/ FirstCoast
  \/ MergeCoast
  \/ PushCoast

SpecCoasts == InitCoasts /\ [][NextCoasts]_vars

\* The program is one thread that runs until it returns or aborts: a step
\* that can change the state is taken.
FairCoasts == InitCoasts /\ [][NextCoasts]_vars /\ WF_vars(NextCoasts)

----------------------------------------------------------------------------
(* route/src/graph.rs: the neighbours of a node of the raster Graph *)

\* The other variables while the routing service, the overlay builder and
\* the coast assembler are not in use.
IdleRouting ==
  /\ water = [i \in Nodes |-> TRUE]
  /\ graph = None
  /\ shortcut_graph = None
  /\ chosen_nodes = <<0, 0>>
  /\ chosen_points = <<0, 0, 0, 0>>
  /\ state = AlgorithmState_new(NodeCount)
  /\ call = IdleCall
  /\ result = NoResult
  /\ fp = NoFindPath
  /\ build = Built(<< >>, << >>)
  /\ extract = NoExtract

Routing ==
  <<water, graph, shortcut_graph, chosen_nodes, chosen_points, state, call, result, fp, build,
    extract>>

\* usize has 64 bits: 2^bits modulo n.
UsizeBits == 64

RECURSIVE pow2_mod(_, _)
pow2_mod(bits, n) == IF bits = 0 THEN 1 % n ELSE (2 * pow2_mod(bits - 1, n)) % n

\* (a - b) % n in usize.  A difference below zero overflows: the debug
\* profile aborts, the release profile wraps around 2^64.
usize_sub_mod(profile, a, b, n) ==
  IF a >= b THEN Some((a - b) % n)
  ELSE IF profile = "debug" THEN None
  ELSE Some((pow2_mod(UsizeBits, n) + n + a - b) % n)

get_neighbour_top(g, i) == Some((i + 1) % (g.raster_colums_count * g.raster_rows_count))

get_neighbour_bottom(g, i) ==
  usize_sub_mod(g.profile, i, 1, g.raster_colums_count * g.raster_rows_count)

get_neighbour_right(g, i) ==
  Some((i + g.raster_rows_count) % (g.raster_colums_count * g.raster_rows_count))

get_neighbour_left(g, i) ==
  usize_sub_mod(g.profile, i, g.raster_rows_count,
                g.raster_colums_count * g.raster_rows_count)

\* get_neighbours_in_water: the four neighbour indices are computed first,
\* then those that are water are pushed in the order top, bottom, right,
\* left.  An overflow in one of the subtractions ends the program.
get_neighbours_in_water(g, i) ==
  LET top == get_neighbour_top(g, i)
      bottom == get_neighbour_bottom(g, i)
      right == get_neighbour_right(g, i)
      left == get_neighbour_left(g, i)
      push(n) == IF g.nodes_is_water[Unwrap(n)] THEN <<Unwrap(n)>> ELSE << >>
  IN  IF bottom = None \/ left = None
      THEN [pc |-> "panic", graph |-> g, i |-> i, top |-> top, bottom |-> bottom,
            right |-> right, left |-> left, neighbours |-> << >>]
      ELSE [pc |-> "returned", graph |-> g, i |-> i, top |-> top, bottom |-> bottom,
            right |-> right, left |-> left,
            neighbours |-> push(top) \o push(bottom) \o push(right) \o push(left)]

\* The rasters of the draft Graph as (columns, rows), its land cells, and
\* the two build profiles.
DraftRasters == { <<4, 4>>, <<3, 4>>, <<4, 3>> }
DraftLand == { {}, {1}, {5, 6}, {0, 7, 11} }
Profiles == {"debug", "release"}

InitDraft ==
  /\ \E r \in DraftRasters, land \in DraftLand, profile \in Profiles :
       draft = [pc |-> "idle",
                graph |-> [nodes_is_water |-> [i \in 0..(r[1] * r[2] - 1) |-> i \notin land],
                           raster_colums_count |-> r[1],
                           raster_rows_count |-> r[2],
                           profile |-> profile]]
  /\ IdleRouting
  /\ classifier = NoClassifier
  /\ picker = NoPicker

\* A caller asks for the water neighbours of node i.
GetNeighboursInWater(i) ==
  /\ draft.pc \in {"idle", "returned"}
  /\ draft' = get_neighbours_in_water(draft.graph, i)
  /\ UNCHANGED <<Routing, classifier, picker>>

NextDraft ==
  \E i \in 0..(draft.graph.raster_colums_count * draft.graph.raster_rows_count - 1) :
    GetNeighboursInWater(i)

SpecDraft == InitDraft /\ [][NextDraft]_vars

----------------------------------------------------------------------------
(* extract/src/main.rs: Node::set_water_flag, the land/water test of a     *)
(* raster node against the assembled coast rings.  Coordinates are i32 in  *)
(* units of 1e-7 degree, as <<lon, lat>>.                                  *)

WATER == Coordinate(0, 900000000)

\* The coordinates of the rings and nodes lie on a lattice of LatticeSize by
\* LatticeSize points, LatticeStep apart, from <<0, 0>> north-eastwards.
LatticeStep == 100000000
LatticeSize == 3

Lattice ==
  { Coordinate(x * LatticeStep, y * LatticeStep) :
      x \in 0..(LatticeSize - 1), y \in 0..(LatticeSize - 1) }

\* transform_lon(p, q) in f64 for p on the lattice (row (p.lon / LatticeStep) *
\* LatticeSize + p.lat / LatticeStep + 1) and q on the lattice (same column
\* index) or q = WATER (last column), in microdegrees.  A result that is not
\* zero but smaller than a microdegree is written -1 or 1, so that equality,
\* order and sign of the f64 values are those of the entries.
TransformLonTable ==
<<
  <<0, 0, 0, 90000000, 44561451, 25505550, 90000000, 62726830, 43219179, 0>>,
  <<180000000, 0, 0, 134561451, 89129615, 42814068, 115505550, 88246217, 60277259, 0>>,
  <<180000000, 180000000, 0, 152726830, 134581688, 88286056, 133219179, 114476842, 86548822, 0>>,
  <<-90000000, -44561451, -25505550, 0, 0, 0, 90000000, 44561451, 25505550, -1>>,
  <<-134561451, -89129615, -42814068, 180000000, 0, 0, 134561451, 89129615, 42814068, -1>>,
  <<-152726830, -134581688, -88286056, 180000000, 180000000, 0, 152726830, 134581688, 88286056, -1>>,
  <<-90000000, -62726830, -43219179, -90000000, -44561451, -25505550, 0, 0, 0, -1>>,
  <<-115505550, -88246217, -60277259, -134561451, -89129615, -42814068, 180000000, 0, 0, -1>>,
  <<-133219179, -114476842, -86548822, -152726830, -134581688, -88286056, 180000000, 180000000, 0, -1>>
>>

lattice_index(c) == (c[1] \div LatticeStep) * LatticeSize + (c[2] \div LatticeStep) + 1

transform_lon(p, q) ==
  IF p[2] = 900000000
    THEN q[1] \div 10
    ELSE TransformLonTable[lattice_index(p)]
           [IF q = WATER THEN LatticeSize * LatticeSize + 1 ELSE lattice_index(q)]

east_or_west(clon, dlon) ==
  LET del0 == dlon - clon
      del == IF del0 > 180000000 THEN del0 - 360000000
             ELSE IF del0 < -180000000 THEN del0 + 360000000
             ELSE del0
  IN IF del > 0 /\ del # 180000000 THEN -1
     ELSE IF del < 0 /\ del # -180000000 THEN 1
     ELSE 0

Node(coordinate, is_water) == [coordinate |-> coordinate, is_water |-> is_water]

\* The loop over the lines of one ring from `line` on (1-based):
\* [on_coast |-> TRUE] when the node was found on a vertex or on a line,
\* else the number of intersections counted.
RECURSIVE coast_lines(_, _, _, _)
coast_lines(self, coordinates, line, intersection_count) ==
  IF line > Len(coordinates)
    THEN [on_coast |-> FALSE, intersection_count |-> intersection_count]
    ELSE
      LET first == coordinates[line]
          second == coordinates[(line % Len(coordinates)) + 1]
          smaller_lon == IF first[1] <= second[1] THEN first[1] ELSE second[1]
          larger_lon == IF first[1] <= second[1] THEN second[1] ELSE first[1]
          counted(tlon_x, tlon_second, tlon_self) ==
            IF tlon_self = tlon_second
              THEN [on_coast |-> TRUE, intersection_count |-> intersection_count]
              ELSE coast_lines(self, coordinates, line + 1,
                     IF east_or_west(tlon_second, tlon_x)
                          = -east_or_west(tlon_second, tlon_self)
                       THEN intersection_count + 1
                       ELSE intersection_count)
      IN IF first[1] = second[1]
           THEN coast_lines(self, coordinates, line + 1, intersection_count)
         ELSE IF self[2] = first[2] /\ self[1] = first[1]
           THEN [on_coast |-> TRUE, intersection_count |-> intersection_count]
         ELSE IF ~(smaller_lon <= self[1] /\ self[1] < larger_lon)
           THEN coast_lines(self, coordinates, line + 1, intersection_count)
         ELSE counted(transform_lon(first, WATER), transform_lon(first, second),
                      transform_lon(first, self))

\* The loop over the rings from ring k on: the value of is_water at return.
RECURSIVE coasts_from(_, _, _)
coasts_from(self, actual_coasts, k) ==
  IF k > Len(actual_coasts) THEN self.is_water
  ELSE LET decided(r) ==
             IF r.on_coast \/ r.intersection_count % 2 = 1
               THEN FALSE
               ELSE coasts_from(self, actual_coasts, k + 1)
       IN decided(coast_lines(self.coordinate, actual_coasts[k].coordinates, 1, 0))

set_water_flag(self, actual_coasts) ==
  IF self.coordinate[2] = -900000000
    THEN Node(self.coordinate, FALSE)
    ELSE Node(self.coordinate, coasts_from(self, actual_coasts, 1))

\* A closed ring as the assembler leaves it: the first coordinate repeated at
\* the end, the extent in longitude beside it.
Ring(steps) ==
  LET open == [k \in DOMAIN steps |->
                 Coordinate(steps[k][1] * LatticeStep, steps[k][2] * LatticeStep)]
      lons == { open[k][1] : k \in DOMAIN open }
  IN Coast(open \o <<open[1]>>,
           CHOOSE l \in lons : \A m \in lons : l <= m,
           CHOOSE l \in lons : \A m \in lons : l >= m)

Rings ==
  { Ring(<< <<0, 0>>, <<2, 0>>, <<2, 2>>, <<0, 2>> >>),
    Ring(<< <<0, 0>>, <<0, 2>>, <<2, 2>>, <<2, 0>> >>),
    Ring(<< <<0, 0>>, <<1, 0>>, <<1, 1>>, <<0, 1>> >>),
    Ring(<< <<0, 0>>, <<2, 1>>, <<1, 2>> >>),
    Ring(<< <<1, 0>>, <<2, 1>>, <<1, 2>>, <<0, 1>> >>) }

MaxRings == 2

\* The positions of the raster nodes: the lattice and the south pole.
NodeCoordinates == Lattice \cup { Coordinate(0, -900000000) }

InitClassifier ==
  /\ \E n \in 1..MaxRings : \E actual_coasts \in [1..n -> Rings] :
       /\ \A j, k \in 1..n : j # k => actual_coasts[j] # actual_coasts[k]
       /\ classifier = [pc |-> "idle", actual_coasts |-> actual_coasts]
  /\ IdleRouting
  /\ draft = NoDraft
  /\ picker = NoPicker

\* main classifies one node of the raster; every node starts as water.
SetWaterFlag(coordinate) ==
  /\ classifier.pc \in {"idle", "returned"}
  /\ classifier' = [pc |-> "returned",
                    actual_coasts |-> classifier.actual_coasts,
                    node |-> set_water_flag(Node(coordinate, TRUE),
                                            classifier.actual_coasts)]
  /\ UNCHANGED <<Routing, draft, picker>>

NextClassifier == \E coordinate \in NodeCoordinates : SetWaterFlag(coordinate)

SpecClassifier == InitClassifier /\ [][NextClassifier]_vars

----------------------------------------------------------------------------
(* create_shortcuts/src/main.rs: the rectangle picker served by --select.  *)
(* A usize is written as an integer; a value that wrapped below zero in a  *)
(* release build is written as the negative number it is congruent to      *)
(* modulo 2^64, so that sums and products are the wrapped ones.            *)

\* a < b on usize.
usize_lt(a, b) == IF (a < 0) = (b < 0) THEN a < b ELSE b < 0

\* The range a..=b of usize as a sequence.  The upper end never wraps: right
\* and bottom only grow from the clicked cell.
usize_range(a, b) ==
  IF a < 0 /\ b >= 0 THEN << >> ELSE [k \in 1..(b - a + 1) |-> a + k - 1]

\* is_water: an index outside offsets aborts the request.
is_water(g, col, row) ==
  LET index == row * g.raster_columns_count + col
  IN  IF index \notin DOMAIN g.offsets \/ (index + 1) \notin DOMAIN g.offsets
      THEN [panic |-> TRUE, value |-> FALSE]
      ELSE [panic |-> FALSE, value |-> g.offsets[index] # g.offsets[index + 1]]

\* The position in rects (from 1) of the first rectangle that overlaps rect.
find_colliding_rect(rects, rect) ==
  LET hits == { i \in DOMAIN rects :
                  /\ usize_lt(rect[1], rects[i][3])
                  /\ usize_lt(rects[i][1], rect[3])
                  /\ usize_lt(rect[2], rects[i][4])
                  /\ usize_lt(rects[i][2], rect[4]) }
  IN  IF hits = {} THEN None ELSE Some(CHOOSE i \in hits : \A j \in hits : i <= j)

\* One of the four `for` loops of the expansion: the cells of the next column
\* or row in turn, each read and then the widened rectangle tested against
\* the placed ones.  done is the side's is_..._done flag after the loop.
RECURSIVE scan(_, _, _, _, _, _)
scan(g, rects, cells, k, candidate, reads) ==
  IF k > Len(cells) THEN [panic |-> FALSE, done |-> FALSE, reads |-> reads]
  ELSE LET read == is_water(g, cells[k][1], cells[k][2])
           seen == reads \cup {cells[k]}
       IN  IF read.panic THEN [panic |-> TRUE, done |-> FALSE, reads |-> seen]
           ELSE IF ~read.value THEN [panic |-> FALSE, done |-> TRUE, reads |-> seen]
           ELSE IF IsSome(find_colliding_rect(rects, candidate))
             THEN [panic |-> FALSE, done |-> TRUE, reads |-> seen]
           ELSE scan(g, rects, cells, k + 1, candidate, seen)

\* a - 1 on usize: the debug build aborts below zero, the release build wraps.
usize_dec(profile, a) == IF profile = "debug" /\ a = 0 THEN None ELSE Some(a - 1)

after_scan(x, s, side_done, moved) ==
  IF s.panic THEN [x EXCEPT !.panic = TRUE, !.reads = s.reads]
  ELSE IF s.done THEN [side_done EXCEPT !.reads = s.reads]
  ELSE [moved EXCEPT !.reads = s.reads]

expand_left(g, profile, rects, x) ==
  IF x.panic \/ x.is_left_done THEN x
  ELSE LET rows == usize_range(x.top, x.bottom)
           next == usize_dec(profile, x.left)
       IN  IF ~IsSome(next) THEN [x EXCEPT !.panic = TRUE]
           ELSE after_scan(x,
                  scan(g, rects, [k \in DOMAIN rows |-> <<Unwrap(next), rows[k]>>], 1,
                       <<Unwrap(next), x.top, x.right, x.bottom>>, x.reads),
                  [x EXCEPT !.is_left_done = TRUE],
                  [x EXCEPT !.left = Unwrap(next), !.is_left_done = (Unwrap(next) = 0)])

expand_top(g, profile, rects, x) ==
  IF x.panic \/ x.is_top_done THEN x
  ELSE LET cols == usize_range(x.left, x.right)
           next == usize_dec(profile, x.top)
       IN  IF ~IsSome(next) THEN [x EXCEPT !.panic = TRUE]
           ELSE after_scan(x,
                  scan(g, rects, [k \in DOMAIN cols |-> <<cols[k], Unwrap(next)>>], 1,
                       <<x.left, Unwrap(next), x.right, x.bottom>>, x.reads),
                  [x EXCEPT !.is_top_done = TRUE],
                  [x EXCEPT !.top = Unwrap(next), !.is_top_done = (Unwrap(next) = 0)])

expand_right(g, rects, x) ==
  IF x.panic \/ x.is_right_done THEN x
  ELSE LET rows == usize_range(x.top, x.bottom)
       IN  after_scan(x,
             scan(g, rects, [k \in DOMAIN rows |-> <<x.right + 1, rows[k]>>], 1,
                  <<x.left, x.top, x.right + 1, x.bottom>>, x.reads),
             [x EXCEPT !.is_right_done = TRUE],
             [x EXCEPT !.right = x.right + 1,
                       !.is_right_done = (x.right + 1 = g.raster_columns_count - 1)])

expand_bottom(g, rects, x) ==
  IF x.panic \/ x.is_bottom_done THEN x
  ELSE LET cols == usize_range(x.left, x.right)
       IN  after_scan(x,
             scan(g, rects, [k \in DOMAIN cols |-> <<cols[k], x.bottom + 1>>], 1,
                  <<x.left, x.top, x.right, x.bottom + 1>>, x.reads),
             [x EXCEPT !.is_bottom_done = TRUE],
             [x EXCEPT !.bottom = x.bottom + 1,
                       !.is_bottom_done = (x.bottom + 1 = g.raster_rows_count - 1)])

\* The while loop of the POST handler.  With left wrapped the range
\* left..=right is empty; once only the bottom side is open and bottom is past
\* the last row, each pass adds one to bottom and nothing else: the loop runs
\* on until bottom itself wraps, and the request does not return (spins).
RECURSIVE expand(_, _, _, _)
expand(g, profile, rects, x) ==
  IF x.panic \/ (x.is_left_done /\ x.is_top_done /\ x.is_right_done /\ x.is_bottom_done)
  THEN x
  ELSE IF /\ x.is_left_done /\ x.is_top_done /\ x.is_right_done
          /\ usize_range(x.left, x.right) = << >>
          /\ x.bottom >= g.raster_rows_count - 1
  THEN [x EXCEPT !.spins = TRUE]
  ELSE expand(g, profile, rects,
         expand_bottom(g, rects,
           expand_right(g, rects,
             expand_top(g, profile, rects,
               expand_left(g, profile, rects, x)))))

Served(p, request, rects, reads) ==
  [pc |-> "serving", graph |-> p.graph, profile |-> p.profile,
   placed_rectangles |-> rects, request |-> request, reads |-> reads]

Aborted(p, request, reads) ==
  [pc |-> "panic", graph |-> p.graph, profile |-> p.profile,
   placed_rectangles |-> p.placed_rectangles, request |-> request, reads |-> reads]

Spinning(p, request, reads) ==
  [pc |-> "spinning", graph |-> p.graph, profile |-> p.profile,
   placed_rectangles |-> p.placed_rectangles, request |-> request, reads |-> reads]

without(rects, i) == SubSeq(rects, 1, i - 1) \o SubSeq(rects, i + 1, Len(rects))

\* (POST) ["/"] from the click on: what the handler leaves behind.
post_click(p, clicked_pos) ==
  LET g == p.graph
      rects == p.placed_rectangles
      left == clicked_pos % g.raster_columns_count
      top == clicked_pos \div g.raster_columns_count
      rect == find_colliding_rect(rects, <<left, top, left, top>>)
      placed(x) ==
        IF x.panic THEN Aborted(p, "POST", x.reads)
        ELSE IF x.spins THEN Spinning(p, "POST", x.reads)
        ELSE IF x.left = x.right \/ x.top = x.bottom
          THEN Served(p, "POST", rects, x.reads)
        ELSE Served(p, "POST",
                    Append(rects, <<x.left, x.top, x.right, x.bottom>>), x.reads)
  IN  IF IsSome(rect) THEN Served(p, "POST", without(rects, Unwrap(rect)), {})
      ELSE placed(expand(g, p.profile, rects,
                    [left |-> left, top |-> top, right |-> left, bottom |-> top,
                     is_left_done |-> FALSE, is_top_done |-> FALSE,
                     is_right_done |-> FALSE, is_bottom_done |-> FALSE,
                     reads |-> {}, panic |-> FALSE, spins |-> FALSE]))

post(p, lon, lat) ==
  LET clicked(nearest) ==
        IF nearest.panic THEN Aborted(p, "POST", {})
        ELSE IF ~IsSome(nearest.node) THEN Served(p, "POST", p.placed_rectangles, {})
        ELSE post_click(p, Unwrap(nearest.node))
  IN  clicked(find_nearest_node(p.graph, lon, lat))

\* Land of the rasters the picker is started on: none; a bar across rows 3
\* and 4; single cells in the middle; a raster whose border is all land.
PickerLand ==
  { {}, {13, 18}, {17}, {9, 22}, {12, 13, 14, 15},
    (0..3) \cup (28..31) \cup {4, 8, 12, 16, 20, 24} \cup {7, 11, 15, 19, 23, 27} }

\* the longest list of rectangles the model follows
MaxPlaced == 3

InitPicker ==
  /\ \E L \in PickerLand, profile \in Profiles :
       picker = [pc |-> "serving",
                 graph |-> grid_graph(BuildRaster, [i \in BuildNodes |-> i \notin L]),
                 profile |-> profile,
                 placed_rectangles |-> << >>, request |-> "none", reads |-> {}]
  /\ IdleRouting
  /\ draft = NoDraft
  /\ classifier = NoClassifier

\* (GET) ["/"]
Get ==
  /\ picker.pc = "serving"
  /\ picker' = Served(picker, "GET", << >>, {})
  /\ UNCHANGED <<Routing, draft, classifier>>

\* (POST) ["/"] with the position of node i as the click.
Post(i) ==
  /\ picker.pc = "serving"
  /\ Len(picker.placed_rectangles) < MaxPlaced
  /\ picker' = post(picker, get_lon(picker.graph, i), get_lat(picker.graph, i))
  /\ UNCHANGED <<Routing, draft, classifier>>

NextPicker == Get \/ \E i \in BuildNodes : Post(i)

SpecPicker == InitPicker /\ [][NextPicker]_vars

----------------------------------------------------------------------------
(* Reference notions the properties are stated against *)

start_node == chosen_nodes[1]
end_node == chosen_nodes[2]

Returned == call.pc = "returned"

edge_indices(g, u) == g.offsets[u][1]..(g.offsets[u + 1][1] - 1)

has_edge(g, u, v, w) ==
  \E k \in edge_indices(g, u) : g.edges[k].destination = v /\ g.edges[k].distance = w

min_of(S) == CHOOSE x \in S : \A y \in S : x <= y

\* One round of Bellman-Ford over every edge of g.
relax_round(g, d) ==
  [v \in DOMAIN d |->
     min_of({d[v]} \cup
            UNION {{d[u] + g.edges[k].distance :
                      k \in {k \in edge_indices(g, u) : g.edges[k].destination = v}} :
                   u \in {u \in DOMAIN d : d[u] # U32_MAX}})]

RECURSIVE shortest_distances(_, _, _)
shortest_distances(g, d, rounds) ==
  LET n == relax_round(g, d)
  IN  IF rounds = 0 \/ n = d THEN d ELSE shortest_distances(g, n, rounds - 1)

\* The minimum total edge weight over all paths from s to t in g; U32_MAX
\* when there is none.
graph_nodes(g) == 0..(g.raster_rows_count * g.raster_columns_count - 1)

distances_from(g, s) ==
  shortest_distances(g, [v \in graph_nodes(g) |-> IF v = s THEN 0 ELSE U32_MAX],
                     Cardinality(graph_nodes(g)))

optimum(g, s, t) == distances_from(g, s)[t]

\* The nodes a path of g leads to from the nodes in S.
RECURSIVE reachable_from(_, _)
reachable_from(g, S) ==
  LET next == S \cup {g.edges[k].destination : k \in UNION {edge_indices(g, u) : u \in S}}
  IN  IF next = S THEN S ELSE reachable_from(g, next)

has_path(g, s, t) == t \in reachable_from(g, {s})

\* What a search returns when it is run on a freshly created state.
fresh_result(alg) ==
  search(alg, graph_of(alg), start_node, end_node, AlgorithmState_new(NodeCount)).result

\* Dijkstra on the base graph, the reference of the variants.
base_dijkstra == search("Dijkstra", graph, start_node, end_node,
                        AlgorithmState_new(NodeCount)).result

max_of(S) == CHOOSE x \in S : \A y \in S : y <= x

\* The largest corner-to-corner distance of a rectangle of the overlay.
max_rect_diagonal(g) ==
  max_of({node_distance(g, get_index(g, g.shortcut_rectangles[r][1],
                                        g.shortcut_rectangles[r][2]),
                           get_index(g, g.shortcut_rectangles[r][3],
                                        g.shortcut_rectangles[r][4])) :
            r \in 1..Len(g.shortcut_rectangles)})

\* Some consecutive pair of the path is no pair of grid neighbours: the
\* path takes a shortcut edge.
takes_shortcut(p) ==
  \E k \in 1..(Len(p) - 1) :
    \A n \in 1..Len(grid_neighbours(Raster, p[k])) :
      grid_neighbours(Raster, p[k])[n] # p[k + 1]

----------------------------------------------------------------------------
(* Properties of the searches *)

\* C1: for every pair of distinct nodes joined by a path, a_star and
\* bi_dijkstra return the distance dijkstra returns, whatever the state held
\* before the call.
C1_EqualDistances ==
  (/\ Returned
   /\ call.alg \in {"AStar", "BiDijkstra"}
   /\ start_node # end_node
   /\ has_path(graph, start_node, end_node))
  => result.distance = base_dijkstra.distance

\* C2: dijkstra returns a path only in the pass that popped end itself, and
\* the distance it returns is the minimum total edge weight over all paths
\* from start to end.
C2_DijkstraOptimalOnPop ==
  (Returned /\ call.alg = "Dijkstra" /\ IsSome(result.path))
  => /\ IsSome(call.node)
     /\ Unwrap(call.node).id = call.end
     /\ result.distance = Some(optimum(graph, call.start, call.end))

\* C2 witness: dijkstra has returned the optimum of a pair while the queue
\* still holds a stale entry of a node whose distance was improved later.
C2_Witness ==
  /\ Returned /\ call.alg = "Dijkstra" /\ IsSome(result.path)
  /\ call.start # call.end
  /\ result.distance = Some(optimum(graph, call.start, call.end))
  /\ \E n \in state.queue : state.distances[n.id] < n.distance

\* The parent pointers behind a returned path telescope: each step of the
\* path is an edge whose weight is the difference of the two distances.
path_follows_parents(g, p, dist) ==
  \A k \in 1..(Len(p) - 1) : has_edge(g, p[k + 1], p[k], dist[p[k]] - dist[p[k + 1]])

\* C3: a path returned for start # end lists nodes of the graph from end to
\* start, each step of it is an edge of the searched graph, and the
\* returned distance is the weight of the walk the parent pointers give (for
\* bi_dijkstra the sum of both distances of the middle node, which is on the
\* path); no search aborts in a parent walk.
C3_PathIsParentWalk ==
  /\ call.pc = "panic" => call.start = call.end
  /\ (Returned /\ IsSome(result.path) /\ call.start # call.end) =>
       LET p == Unwrap(result.path)
           g == graph_of(call.alg)
           m == call.middle_node
       IN  /\ \A k \in 1..Len(p) : p[k] \in Nodes
           /\ p[1] = call.end
           /\ p[Len(p)] = call.start
           /\ state.distances[call.start] = 0
           /\ IF call.alg = "BiDijkstra"
              THEN /\ state.distances2[call.end] = 0
                   /\ result.distance = Some(state.distances[m] + state.distances2[m])
                   /\ \E j \in 1..Len(p) :
                        /\ p[j] = m
                        /\ \A k \in 1..(j - 1) :
                             has_edge(g, p[k], p[k + 1],
                                      state.distances2[p[k + 1]] - state.distances2[p[k]])
                        /\ path_follows_parents(g, SubSeq(p, j, Len(p)), state.distances)
              ELSE /\ result.distance = Some(state.distances[call.end])
                   /\ path_follows_parents(g, p, state.distances)

\* C3 witness: bi_dijkstra has returned a path whose middle node is neither
\* start nor end.
C3_Witness ==
  /\ Returned /\ call.alg = "BiDijkstra" /\ IsSome(result.path)
  /\ call.start # call.end
  /\ call.middle_node \notin {call.start, call.end}
  /\ \E j \in 2..(Len(Unwrap(result.path)) - 1) : Unwrap(result.path)[j] = call.middle_node

\* C4: no search aborts; a returned path is present exactly when the
\* distance is; and both are absent when end is not reachable from start.
C4_UnreachableIsNone ==
  /\ call.pc # "panic"
  /\ Returned =>
       /\ IsSome(result.path) <=> IsSome(result.distance)
       /\ ~has_path(graph_of(call.alg), call.start, call.end)
            => result.path = None /\ result.distance = None

\* C4 witness: a search between two water nodes of different seas has
\* returned without a path.
C4_Witness ==
  /\ Returned
  /\ is_water_node(graph, call.start) /\ is_water_node(graph, call.end)
  /\ ~has_path(graph_of(call.alg), call.start, call.end)
  /\ result = PathResult(None, None, call.heap_pops)

C6_SameReachability ==
  (Returned /\ is_water_node(graph, call.start) /\ is_water_node(graph, call.end))
  => (IsSome(result.distance) <=> IsSome(base_dijkstra.distance))

\* C6 witness: shortcut_a_star has reached an end node inside a rectangle
\* from a start node outside of it.
C6_Witness ==
  /\ Returned /\ call.alg = "ShortcutAStar"
  /\ is_water_node(graph, call.start) /\ is_water_node(graph, call.end)
  /\ IsSome(shortcut_graph.offsets[call.end][2])
  /\ shortcut_graph.offsets[call.start][2] = None
  /\ IsSome(result.distance) /\ IsSome(base_dijkstra.distance)

\* C7: reset turns any state into the freshly created one, vector lengths
\* included, and so a search returns on a state left over by earlier
\* searches what it returns on a fresh state.
C7_ResetErasesHistory ==
  /\ reset(state) = AlgorithmState_new(NodeCount)
  /\ \A f \in {"distances", "parent_nodes", "distances2", "parent_nodes2"} :
       DOMAIN state[f] = 0..(NodeCount - 1)
  /\ Returned => result = fresh_result(call.alg)

\* C7 witness: a search that was started on a state holding the leftovers
\* of an earlier search has returned a path.
C7_Witness ==
  /\ Returned /\ call.dirty
  /\ IsSome(result.path)
  /\ result = fresh_result(call.alg)

----------------------------------------------------------------------------
(* Properties of the route queries *)

\* C8: find_path never aborts, and it returns no result exactly when a
\* point did not snap to a water node or the snapped nodes are joined by
\* no path.
C8_NoResultInExactlyTwoCases ==
  fp.called =>
    /\ fp.pc = "returned"
    /\ fp.result = None <=>
         \/ fp.nearest_start_node = None
         \/ fp.nearest_end_node = None
         \/ ~has_path(graph_of(fp.execution_type), Unwrap(fp.nearest_start_node),
                      Unwrap(fp.nearest_end_node))

\* The raster cells bracketing a point: the columns left and right of it,
\* wrapping at the antimeridian, and the rows above and below it that the
\* raster has.
bracket_cells(g, lon, lat) ==
  LET left == (lon + 1800) \div (3600 \div g.raster_columns_count)
      top == (900 - lat) \div (1800 \div g.raster_rows_count)
      cols == {left % g.raster_columns_count, (left + 1) % g.raster_columns_count}
      rows == {r \in 0..(g.raster_rows_count - 1) :
                 r = top \/ r = top + 1 \/ (top >= g.raster_rows_count
                                            /\ r = g.raster_rows_count - 1)}
  IN  {r * g.raster_columns_count + c : r \in rows, c \in cols}

\* n is what the snap of (lon, lat) is to return: a nearest water cell of
\* the bracket, None when the bracket holds no water.
snaps_to(g, lon, lat, n) ==
  LET waters == {c \in bracket_cells(g, lon, lat) : is_water_node(g, c)}
      dist(c) == calculate_distance(lon, lat, get_lon(g, c), get_lat(g, c))
  IN  /\ n = None <=> waters = {}
      /\ IsSome(n) => /\ Unwrap(n) \in waters
                      /\ \A c \in waters : dist(Unwrap(n)) <= dist(c)

\* C9: for every point of the globe find_nearest_node reads cells of the
\* raster only, takes them from the bracket of the point without wrapping
\* rows, and returns a nearest water cell of the bracket, None exactly when
\* the bracket holds no water.
C9_SnapsToNearestWaterOfBracket ==
  fp.called =>
    /\ fp.pc # "panic"
    /\ snaps_to(graph_of(fp.execution_type), lon1, lat1, fp.nearest_start_node)
    /\ snaps_to(graph_of(fp.execution_type), lon2, lat2, fp.nearest_end_node)

\* C10: when both points snap to the same water node, find_path calls no
\* search and leaves the AlgorithmState as it was, the polyline it returns
\* is the one leg from the user end point to the user start point, and the
\* distance is the great-circle distance between the two user points.
C10_SameSnapSingleLeg ==
  [][(/\ fp'.called /\ fp'.pc = "returned"
      /\ IsSome(fp'.nearest_start_node)
      /\ fp'.nearest_start_node = fp'.nearest_end_node)
     => /\ state' = state
        /\ ~fp'.searched
        /\ fp'.result = Some([features |-> << << <<lon2, lat2>>, <<lon1, lat1>> >> >>,
                              distance |-> calculate_distance(lon1, lat1, lon2, lat2)])]_vars

\* C11: when a search ran and found a path, the coordinates find_path
\* composes are the user end point, the path nodes from the snapped end
\* node to the snapped start node, and the user start point; the distance
\* is the search distance plus the leg from the user start point to the
\* snapped start node plus the leg from the snapped end node to the user
\* end point.
C11_RouteComposition ==
  (fp.called /\ fp.pc = "returned" /\ fp.searched /\ fp.result # None) =>
    LET g == graph_of(fp.execution_type)
        s == Unwrap(fp.nearest_start_node)
        e == Unwrap(fp.nearest_end_node)
        p == Unwrap(fp.found.path)
        c == fp.coordinates
    IN  /\ Len(c) = Len(p) + 2
        /\ c[1] = <<lon2, lat2>>
        /\ c[Len(c)] = <<lon1, lat1>>
        /\ p[1] = e
        /\ p[Len(p)] = s
        /\ \A k \in 1..Len(p) : c[k + 1] = <<get_lon(g, p[k]), get_lat(g, p[k])>>
        /\ Unwrap(fp.result).distance
             = Unwrap(fp.found.distance)
               + calculate_distance(lon1, lat1, get_lon(g, s), get_lat(g, s))
               + calculate_distance(get_lon(g, e), get_lat(g, e), lon2, lat2)

\* C11 witness: a route over at least three nodes between two user points
\* that lie off their snapped nodes by legs of different length.
C11_Witness ==
  /\ fp.called /\ fp.pc = "returned" /\ fp.searched /\ fp.result # None
  /\ Len(fp.coordinates) >= 5
  /\ LET g == graph_of(fp.execution_type)
         s == Unwrap(fp.nearest_start_node)
         e == Unwrap(fp.nearest_end_node)
     IN  /\ calculate_distance(lon1, lat1, get_lon(g, s), get_lat(g, s)) > 0
         /\ calculate_distance(get_lon(g, e), get_lat(g, e), lon2, lat2) > 0
         /\ Unwrap(fp.result).distance > Unwrap(fp.found.distance)

\* The consecutive pairs of a line whose longitudes differ by more than
\* 180 degrees.
crossings(line) ==
  {i \in 1..(Len(line) - 1) : Abs(line[i][1] - line[i + 1][1]) > 1800}

\* C12: find_path emits one LineString more than the composed coordinates
\* have pairs more than 180 degrees of longitude apart, and no emitted
\* LineString holds such a pair.
C12_SplitAtAntimeridian ==
  (fp.called /\ fp.pc = "returned" /\ fp.result # None) =>
    LET features == Unwrap(fp.result).features
    IN  /\ Len(features) = Cardinality(crossings(fp.coordinates)) + 1
        /\ \A f \in 1..Len(features) : crossings(features[f]) = {}

----------------------------------------------------------------------------
(* Properties of the overlay builder *)

\* The cells on the four sides of a rectangle.
border_cells(g, rect) ==
  {n \in graph_nodes(g) :
     LET col == n % g.raster_columns_count
         row == n \div g.raster_columns_count
     IN  /\ rect[1] <= col /\ col <= rect[3]
         /\ rect[2] <= row /\ row <= rect[4]
         /\ col \in {rect[1], rect[3]} \/ row \in {rect[2], rect[4]}}

\* a and b are joined both ways by an edge that weighs the shortest path
\* between them in the base graph.
shortcut_between(a, b) ==
  LET w == optimum(graph, a, b)
  IN  has_edge(shortcut_graph, a, b, w) /\ has_edge(shortcut_graph, b, a, w)

\* C13: in the overlay create_graph returns, any two cells on the border of
\* a rectangle, on two sides or on one, are joined in both directions by
\* an edge whose weight is the length of the shortest path between them in
\* the base graph.
C13_EveryBorderPairJoined ==
  build.pc = "built" =>
    \A r \in 1..Len(build.rects) :
      \A a, b \in border_cells(graph, build.rects[r]) : a # b => shortcut_between(a, b)

\* C14: create_graph comes to its end for every list of rectangles inside
\* the raster, whatever land lies under their borders: no worker aborts.
C14_CreateGraphCompletes == build.pc # "panic"

\* C15: the graph create_graph returns has N + 1 offsets that never
\* decrease, the last of them the number of edges, every destination is a
\* node, and every edge of the base graph is still in the range of its node.
C15_OverlayIntegrity ==
  build.pc = "built" =>
    LET g == shortcut_graph
        N == g.raster_rows_count * g.raster_columns_count
    IN  /\ DOMAIN g.offsets = 0..N
        /\ g.offsets[0][1] = 0
        /\ \A i \in 0..(N - 1) : g.offsets[i][1] <= g.offsets[i + 1][1]
        /\ DOMAIN g.edges = 0..(g.offsets[N][1] - 1)
        /\ \A k \in DOMAIN g.edges : g.edges[k].destination \in 0..(N - 1)
        /\ \A i \in 0..(N - 1) :
             \A k \in edge_indices(graph, i) :
               has_edge(g, i, graph.edges[k].destination, graph.edges[k].distance)

\* C15 witness: an overlay of two merged rectangles that holds more edges
\* than the base graph, over a raster with land.
C15_Witness ==
  /\ build.pc = "built"
  /\ Len(build.merged) = 2
  /\ \E i \in BuildNodes : ~water[i]
  /\ Cardinality(DOMAIN shortcut_graph.edges) > Cardinality(DOMAIN graph.edges)

\* The adjacency list of every node is sorted by destination.
sorted_by_destination(g) ==
  \A i \in graph_nodes(g) :
    \A k \in edge_indices(g, i) :
      k + 1 \in edge_indices(g, i) => g.edges[k].destination <= g.edges[k + 1].destination

\* C16: the overlay is the same for every order in which the workers take
\* the lock, and each of its adjacency lists is sorted by destination.
C16_MergeOrderInvisible ==
  build.pc = "built" =>
    /\ shortcut_graph
         = create_graph(graph, build.rects, [k \in 1..Len(build.rects) |-> k]).graph
    /\ sorted_by_destination(shortcut_graph)

input_ways ==
  LET ws == SelectSeq(extract.pbf, LAMBDA obj : obj.kind = "Way")
  IN  [k \in 1..Len(ws) |->
         [j \in 1..Len(ws[k].nodes) |->
            LET hit == {o \in 1..Len(OsmNodes) : OsmNodes[o].id = ws[k].nodes[j]}
            IN  IF hit = {} THEN None
                ELSE LET o == CHOOSE o \in hit : TRUE
                     IN  <<OsmNodes[o].decimicro_lon, OsmNodes[o].decimicro_lat>>]]

RECURSIVE flat(_)
flat(lists) == IF Len(lists) = 0 THEN << >> ELSE lists[1] \o flat(Tail(lists))

\* The fragments can all be chained: every way has nodes, all of them in
\* the file, no two ways start at the same place, no two end at the same
\* place, and the places where ways end are the places where ways start.
chainable ==
  LET ws == input_ways
  IN  /\ Len(ws) > 0
      /\ \A k \in DOMAIN ws : Len(ws[k]) > 0 /\ \A j \in DOMAIN ws[k] : ws[k][j] # None
      /\ \A k, l \in DOMAIN ws : k # l => ws[k][1] # ws[l][1]
      /\ \A k, l \in DOMAIN ws : k # l => ws[k][Len(ws[k])] # ws[l][Len(ws[l])]
      /\ {ws[k][1] : k \in DOMAIN ws} = {ws[k][Len(ws[k])] : k \in DOMAIN ws}

C19_ExtentCoversRing ==
  \A r \in DOMAIN extract.actual_coasts :
    LET ring == extract.actual_coasts[r]
        lons == {ring.coordinates[k][1] : k \in DOMAIN ring.coordinates}
    IN  /\ ring.leftmost = min_of(lons)
        /\ ring.rightmost = max_of(lons)

\* C20: the assembly comes to an end on every input: it returns the rings
\* once the map is empty, or it stops with a fatal error.
C20_AssemblyTerminates == <>(extract.pc \in {"done", "panic"})

----------------------------------------------------------------------------
(* Further properties of the searches *)

\* Node v is annotated with a rectangle that holds neither start nor end.
in_foreign_rect(v) ==
  LET g == shortcut_graph
      rect == g.offsets[v][2]
  IN  /\ IsSome(rect)
      /\ ~is_node_inside_rect(g, start_node, g.shortcut_rectangles[Unwrap(rect) + 1])
      /\ ~is_node_inside_rect(g, end_node, g.shortcut_rectangles[Unwrap(rect) + 1])

\* C23: while shortcut_a_star runs and when it has returned, a node annotated
\* with a rectangle that holds neither start nor end has no distance, no
\* parent and no queue entry, and a returned path does not pass through it.
C23_ForeignInteriorUntouched ==
  (call.alg = "ShortcutAStar" /\ call.pc \in {"loop", "returned"}) =>
    \A v \in Nodes :
      in_foreign_rect(v) =>
        /\ state.distances[v] = U32_MAX
        /\ state.parent_nodes[v] = U32_MAX
        /\ \A n \in state.queue : n.id # v
        /\ IsSome(result.path) =>
             \A k \in 1..Len(Unwrap(result.path)) : Unwrap(result.path)[k] # v

\* C23 witness: shortcut_a_star has expanded a node with an edge to a water
\* node inside a rectangle that holds neither start nor end.
C23_Witness ==
  /\ call.alg = "ShortcutAStar"
  /\ call.pc = "loop"
  /\ IsSome(call.node)
  /\ \E v \in Nodes :
       /\ in_foreign_rect(v)
       /\ is_water_node(shortcut_graph, v)
       /\ \E k \in edge_indices(shortcut_graph, Unwrap(call.node).id) :
            shortcut_graph.edges[k].destination = v

\* Entry n goes before every entry of the queue: its distance is the
\* smallest, and among the entries of that distance its id is the smallest.
pops_first(n, queue) ==
  /\ n \in queue
  /\ \A m \in queue :
       n.distance < m.distance \/ (n.distance = m.distance /\ n.id <= m.id)

\* C24: every pop of a pass of a search loop takes from the queue an entry
\* of the smallest distance and, among those, of the smallest node id.
C24_PopSmallestDistanceThenId ==
  [][(call.pc = "loop" /\ state.queue # {}) =>
       /\ pops_first(Unwrap(call'.node), state.queue)
       /\ (call.alg = "BiDijkstra" /\ state.queue2 # {}) =>
            pops_first(Unwrap(call'.node2), state.queue2)]_vars

\* The nodes both searches of bi_dijkstra have reached.
reached_by_both == {v \in Nodes : state.distances[v] # U32_MAX /\ state.distances2[v] # U32_MAX}

\* C25: in bi_dijkstra with start # end, whenever the termination test is
\* evaluated shortest_distance is the least distances[v] + distances2[v] over
\* the nodes reached by both searches (u32::MAX when there is none),
\* middle_node attains it, and a path is returned only when the distances
\* of the two popped nodes add up to at least shortest_distance.
C25_MeetingDistanceIsMinimum ==
  (call.alg = "BiDijkstra" /\ call.pc \in {"loop", "returned"} /\ start_node # end_node) =>
    /\ call.shortest_distance =
         IF reached_by_both = {} THEN U32_MAX
         ELSE min_of({state.distances[v] + state.distances2[v] : v \in reached_by_both})
    /\ reached_by_both # {} =>
         /\ call.middle_node \in reached_by_both
         /\ state.distances[call.middle_node] + state.distances2[call.middle_node]
              = call.shortest_distance
    /\ IsSome(result.path) =>
         state.distances[Unwrap(call.node).id] + state.distances2[Unwrap(call.node2).id]
           >= call.shortest_distance

\* C25 witness: bi_dijkstra returned a path between different nodes after
\* the searches met in several nodes, the middle node being neither end.
C25_Witness ==
  /\ call.alg = "BiDijkstra"
  /\ call.pc = "returned"
  /\ IsSome(result.path)
  /\ start_node # end_node
  /\ Cardinality(reached_by_both) >= 3
  /\ call.middle_node \notin {start_node, end_node}

\* C28: every search that has been started comes to its return, with a
\* path or with no path.
C28_SearchTerminates == (call.pc = "loop") ~> (call.pc = "returned")

\* C28 witness: a search between different water nodes has returned without
\* a path after several passes, its queue run empty.
C28_Witness ==
  /\ call.pc = "returned"
  /\ result.path = None
  /\ call.heap_pops >= 4
  /\ state.queue = {}
  /\ start_node # end_node
  /\ water[start_node] /\ water[end_node]

\* C29: a search from a water node to itself returns the path of that one
\* node with distance 0, whichever of the four variants is run.
C29_SameNodeIsOneNodePath ==
  (Returned /\ start_node = end_node /\ water[start_node]) =>
    /\ result.path = Some(<<start_node>>)
    /\ result.distance = Some(0)

----------------------------------------------------------------------------
(* Further properties of find_path *)

\* The lines the split is to give: every coordinate in order, a line ended
\* after a departing point by the point at +/-180 degrees of its latitude
\* and the next line begun by the point of opposite sign, of the arriving
\* point's latitude, before the arriving point.
RECURSIVE lines_keeping_all(_, _, _, _)
lines_keeping_all(coordinates, i, line, features) ==
  IF i > Len(coordinates) THEN Append(features, line)
  ELSE IF i > 1 /\ Abs(coordinates[i - 1][1] - coordinates[i][1]) > 1800
       THEN LET lon_end == IF coordinates[i - 1][1] < 0 THEN -1800 ELSE 1800
            IN  lines_keeping_all(coordinates, i + 1,
                                  << <<-lon_end, coordinates[i][2]>>, coordinates[i] >>,
                                  Append(features,
                                         Append(line, <<lon_end, coordinates[i - 1][2]>>)))
       ELSE lines_keeping_all(coordinates, i + 1, Append(line, coordinates[i]), features)

\* C26: the LineStrings find_path emits hold every coordinate of the
\* composed polyline in order and, besides them, only the two points at
\* +/-180 degrees of each crossing.
C26_SplitKeepsEveryCoordinate ==
  (fp.called /\ fp.pc = "returned" /\ fp.result # None) =>
    Unwrap(fp.result).features = lines_keeping_all(fp.coordinates, 1, << >>, << >>)

----------------------------------------------------------------------------
(* Further properties of the overlay builder *)

\* How often edge e occurs in a list of edges.
occurrences(list, e) == Cardinality({k \in DOMAIN list : list[k] = e})

\* The two lists hold the same edges the same number of times.
same_multiset(a, b) ==
  \A e \in {a[k] : k \in DOMAIN a} \cup {b[k] : k \in DOMAIN b} :
    occurrences(a, e) = occurrences(b, e)

\* The base edges of node i followed by the batches of the given workers.
RECURSIVE base_and_batches(_, _, _)
base_and_batches(batches, k, i) ==
  IF k = 0 THEN node_edges(graph, i)
  ELSE base_and_batches(batches, k - 1, i) \o batches[k][i]

\* C27: under every order in which the workers take the lock, the shared
\* edge list of each node holds, as a multiset, the base edges and the whole
\* batches of exactly the workers that have merged, and the graph written at
\* the end holds the base edges and the batches of all rectangles.
C27_BatchesMergedWhole ==
  LET whole(batches) ==
        /\ build.pc = "workers" =>
             \A i \in BuildNodes :
               same_multiset(build.edges[i], base_and_batches(batches, Len(batches), i))
        /\ build.pc = "built" =>
             /\ Len(batches) = Len(build.rects)
             /\ \A i \in BuildNodes :
                  same_multiset(node_edges(shortcut_graph, i),
                                base_and_batches(batches, Len(batches), i))
  IN  build.pc \in {"workers", "built"} =>
        whole([k \in 1..Len(build.merged) |->
                 local_edges(graph, build.rects[build.merged[k]]).edges])

\* C27 witness: the overlay of two rectangles with a common border column
\* is written after the second worker took the lock before the first.
C27_Witness ==
  /\ build.pc = "built"
  /\ build.merged = <<2, 1>>
  /\ Cardinality(DOMAIN shortcut_graph.edges) > Cardinality(DOMAIN graph.edges)

----------------------------------------------------------------------------
(* Properties of the raster neighbours *)

\* Column and row of a node of the draft Graph, whose index runs down the
\* columns: the right neighbour of i is i + raster_rows_count.
draft_col(i) == i \div draft.graph.raster_rows_count
draft_row(i) == i % draft.graph.raster_rows_count

\* C22: get_neighbours_in_water never aborts and computes every index inside
\* the raster; the east neighbour of a node of the last column is the node of
\* the first column in its row, the west neighbour of a node of the first
\* column the node of the last column in its row; and the two vertical
\* neighbours lie in the column of the node, one row away: the rows do not
\* wrap.
C22_ColumnsWrapRowsDoNot ==
  draft.pc \in {"returned", "panic"} =>
    LET g == draft.graph
        i == draft.i
        N == g.raster_colums_count * g.raster_rows_count
        vertical(n) ==
          draft_col(n) = draft_col(i)
            /\ (draft_row(n) = draft_row(i) + 1 \/ draft_row(n) = draft_row(i) - 1)
    IN  /\ draft.pc = "returned"
        /\ \A n \in {draft.top, draft.bottom, draft.right, draft.left} : Unwrap(n) \in 0..(N - 1)
        /\ draft_col(i) = g.raster_colums_count - 1 =>
             Unwrap(draft.right) = draft_row(i)
        /\ draft_col(i) = 0 =>
             Unwrap(draft.left) = (g.raster_colums_count - 1) * g.raster_rows_count + draft_row(i)
        /\ \A k \in DOMAIN draft.neighbours :
             draft.neighbours[k] \in {Unwrap(draft.top), Unwrap(draft.bottom)}
               => vertical(draft.neighbours[k])

-----------------------------------------------------------------------------
(* Properties of the land/water classifier *)

on_vertex(coordinate, actual_coasts) ==
  \E k \in DOMAIN actual_coasts :
    \E line \in DOMAIN actual_coasts[k].coordinates :
      actual_coasts[k].coordinates[line] = coordinate

\* C21: a node located exactly at a vertex of a coast ring is classified as
\* land, whatever the directions of the two ring edges that meet there.
C21_NodeOnVertexIsLand ==
  (classifier.pc = "returned"
     /\ on_vertex(classifier.node.coordinate, classifier.actual_coasts))
    => ~classifier.node.is_water

----------------------------------------------------------------------------
(* Properties of the rectangle picker *)

inside_raster(g, col, row) ==
  /\ 0 <= col /\ col < g.raster_columns_count
  /\ 0 <= row /\ row < g.raster_rows_count

covers_water_only(g, rect) ==
  \A col \in rect[1]..rect[3], row \in rect[2]..rect[4] :
    inside_raster(g, col, row) /\ is_water_node(g, get_index(g, col, row))

C30_ListEmptyAfterGet ==
  picker.pc # "idle" /\ picker.request = "GET" => picker.placed_rectangles = << >>

C30_PairwiseDisjoint ==
  picker.pc # "idle" =>
    \A i, j \in DOMAIN picker.placed_rectangles :
      i # j => ~IsSome(find_colliding_rect(<<picker.placed_rectangles[i]>>,
                                           picker.placed_rectangles[j]))

C30_ProperRectangles ==
  picker.pc # "idle" =>
    \A i \in DOMAIN picker.placed_rectangles :
      LET rect == picker.placed_rectangles[i]
      IN  /\ rect[1] < rect[3] /\ rect[2] < rect[4]
          /\ inside_raster(picker.graph, rect[1], rect[2])
          /\ inside_raster(picker.graph, rect[3], rect[4])
          /\ covers_water_only(picker.graph, rect)

C30_ReadsInsideRaster ==
  picker.pc # "idle" =>
    \A cell \in picker.reads : inside_raster(picker.graph, cell[1], cell[2])

\* C30: the picker's list is empty after every GET /; after any sequence of
\* POST clicks its rectangles are pairwise non-overlapping, each has
\* left < right and top < bottom and covers only water cells inside the
\* raster; and the expansion loop never reads a cell outside the raster.
C30_PickerInvariant ==
  /\ C30_ListEmptyAfterGet
  /\ C30_PairwiseDisjoint
  /\ C30_ProperRectangles
  /\ C30_ReadsInsideRaster

====
